---- MODULE Spec2Model ----
(***************************************************************************)
(* Model of the batch registration engine of register.py: run_batch and    *)
(* its worker pool, TraeRegistrar.run_one (one registration workflow), the *)
(* response listener TraeRegistrar._handle_response and the persistence    *)
(* sinks save_account / save_session / save_account_data.                  *)
(*                                                                         *)
(* Granularity: one action per stretch of code between two suspension      *)
(* points (await) of a task.  The outcome of an awaited external operation *)
(* (browser, mailbox, file system, progress callback) is a nondeterministic*)
(* choice between returning and raising.                                   *)
(***************************************************************************)
EXTENDS Integers, Sequences, FiniteSets, TLC

\* ---------------------------------------------------------------- bounds
MaxTotal == 2          \* largest batch size explored
MaxConc == 2           \* largest requested concurrency explored
MaxResponses == 2      \* response events delivered to one listener
MaxTimeout == 3        \* largest email_wait_timeout_s explored (seconds)
MaxPollInterval == 2   \* largest email_poll_interval_s explored (seconds)
MaxDelay == 1          \* longest time an await takes beyond its minimum
MaxSepRun == 2         \* longest whitespace run between two spaced digits
MaxMessages == 2       \* messages one mail client fetches
MaxMailbox == 2        \* messages in the mailbox that match the search
MaxPasswordLength == 9 \* largest length generate_password is asked for

\* ------------------------------------------------------ program constants
max_retries == 3       \* register.py:454

\* The stop sentinel put on the queue (Python None); indices are 1..total.
None == 0

\* The header line of the credential log; account lines are identified by
\* the index of the workflow whose identity they carry.
Header == 0

\* Value of an empty capture slot (Python None, falsy).
NoText == "None"

\* Bodies of the responses the page may receive (all non-empty texts).
Bodies == {"bodyA", "bodyB"}
BatchBodies == {"bodyA"}

\* Value of a token that is not there (Python None; extract_token returns
\* no empty string, and the account record holds "" for None)
NoToken == <<>>

\* Value of a verification code that is not there (Python None, falsy) and
\* the codes a mailbox check may store
NoCode == <<>>
Codes == {<<"1", "2", "3", "4", "5", "6">>}

\* The event-loop clock is explored up to the latest instant at which a
\* poll loop can still be running
MaxClock == MaxTimeout + MaxPollInterval + 2 * MaxDelay

\* A listener invocation that has run to its end
Finished == [w |-> 0, kind |-> "-", body |-> "-", at |-> "done"]

Workers == 1..MaxConc
Indices == 1..MaxTotal

VARIABLES
    total,                    \* run_batch argument
    requested,                \* run_batch argument concurrency, as passed
    concurrency,              \* local concurrency (clamped at line 527)
    progress_cb,              \* TRUE iff a progress callback was passed
    main_pc,                  \* position of the run_batch coroutine
    queue,                    \* asyncio.Queue contents, head first
    unfinished_tasks,         \* asyncio.Queue._unfinished_tasks
    tasks,                    \* worker ids of the created tasks
    completed,                \* nonlocal completed
    progress_lock,            \* holder of progress_lock (0: free)
    accounts_lock,            \* holder of accounts_lock (0: free)
    pc,                       \* position of each worker task
    index,                    \* item each worker dequeued last
    retry_count,              \* run_one local retry_count of each worker
    token_response_text,      \* registrar._token_response_text
    user_info_response_text,  \* registrar._user_info_response_text
    exc,                      \* exception in flight at the worker boundary
    connection,               \* IMAPConnection._connection of the worker's
                              \* mail client: "none" or "connected"
    accounts_file,            \* credential log: sequence of lines
    write_header,             \* per worker: _append_account_sync local
                              \* write_header ("none": not computed)
    cookies_dir,              \* legacy session files written
    accounts_dir,             \* structured account files written
    cb_log,                   \* done values passed to progress_cb, in order
    cb_raised,                \* TRUE iff some progress_cb invocation raised
    dequeued,                 \* per index: number of queue.get returning it
    started,                  \* per index: number of run_one calls started
    handlers,                 \* listener invocations (tasks) per response
    attempts,                 \* per worker: outcomes of the page.reload
                              \* attempts of its current workflow, in order
    now,                      \* asyncio.get_running_loop().time()
    email_wait_timeout_s,     \* settings.email_wait_timeout_s
    email_poll_interval_s,    \* settings.email_poll_interval_s
    deadline,                 \* per worker: local deadline of the poll loop
    attempt,                  \* per worker: local attempt of the poll loop
    last_verification_code,   \* per worker: mail_client.last_verification_code
    verification_code,        \* per worker: local of _sign_up (line 369)
    sleeps,                   \* per worker: asyncio.sleep calls of the loop
    poll_entries,             \* per worker: calls of the poll loop
    page_actions,             \* per worker: form controls acted on so far
    signup_outcome,           \* per worker: how its signup phase ended
    btn_text,                 \* per worker: local btn_text of _claim_gift
    gift_outcome,             \* per worker: how its gift step ended
    code_length,              \* VerificationCodeParser.code_length
    layout,                   \* how content was put together
    content,                  \* the text given to the parser
    candidates,               \* result of find_candidates(content)
    parsed,                   \* result of parse(content)
    parser_calls,             \* the parser methods applied so far
    email_address,            \* mail_client.email_address
    message,                  \* the message fetched last
    mail_pc,                  \* "idle" or "fetched" (message not processed)
    fetched,                  \* number of messages fetched
    mailbox,                  \* the server's messages matching the search,
                              \* by message id
    email_ids,                \* check_emails local email_ids, last cycle
    fetched_ids,              \* ids fetched in the last check cycle
    check_outcome,            \* how the last check_emails ended, as its
                              \* last log line tells; "raised" if it raised
    password_length,          \* generate_password argument length, as passed
    required,                 \* generate_password local required
    password_chars,           \* generate_password local password_chars
    shuffle_i,                \* index i of the loop inside shuffle
    password,                 \* what generate_password returned
    password_pc,              \* position inside generate_password
    token_layout,             \* how token_text was put together
    token_text,               \* the text given to extract_token
    token_value,              \* what extract_token returned
    token_pc,                 \* "idle", "called", "returned" or "raised"
    merge_dir,                \* the accounts directory: for every file
                              \* name *.json what that file holds
    json_files,               \* merge_accounts_command: the sorted files
                              \* the loop has yet to read
    all_accounts,             \* merge_accounts_command local all_accounts
    output_file,              \* the text of the output file
    merge_pc,                 \* position inside merge_accounts_command
    running,                  \* gui.py App.running
    gui_pc,                   \* the Tk main thread: "idle" in the main loop,
                              \* "dialog" inside the save-file dialog
    threads,                  \* the task threads started so far, in order
    after_queue,              \* reset callbacks scheduled by self.after
    last_click                \* what the latest button handler did

vars == <<total, requested, concurrency, progress_cb, main_pc, queue,
          unfinished_tasks, tasks, completed, progress_lock, accounts_lock,
          pc, index, retry_count, token_response_text,
          user_info_response_text, exc, connection, accounts_file,
          write_header,
          cookies_dir,
          accounts_dir, cb_log, cb_raised, dequeued, started, handlers,
          attempts, now, email_wait_timeout_s, email_poll_interval_s,
          deadline, attempt, last_verification_code, verification_code,
          sleeps, poll_entries, page_actions, signup_outcome, btn_text,
          gift_outcome, code_length, layout, content, candidates, parsed,
          parser_calls,
          email_address, message, mail_pc, fetched, mailbox, email_ids,
          fetched_ids, check_outcome, password_length,
          required, password_chars, shuffle_i, password, password_pc,
          token_layout, token_text, token_value, token_pc,
          merge_dir, json_files, all_accounts, output_file, merge_pc,
          running, gui_pc, threads, after_queue, last_click>>

argVars == <<total, requested, progress_cb>>
mainVars == <<total, requested, concurrency, progress_cb, main_pc, tasks>>
queueVars == <<queue, unfinished_tasks>>
progressVars == <<completed, progress_lock, cb_log, cb_raised>>
workerVars == <<pc, index, retry_count, exc, connection>>
fileVars == <<accounts_lock, accounts_file, write_header, cookies_dir,
              accounts_dir>>
slotVars == <<token_response_text, user_info_response_text>>
\* what only the steps inside a workflow write (and Dequeue / Finally reset)
settingsVars == <<email_wait_timeout_s, email_poll_interval_s>>
pollVars == <<now, deadline, attempt, last_verification_code,
              verification_code, sleeps, poll_entries>>
signupVars == <<pollVars, page_actions, signup_outcome>>
parserVars == <<code_length, layout, content, candidates, parsed,
                parser_calls>>
mailVars == <<email_address, message, mail_pc, fetched, mailbox, email_ids,
              fetched_ids, check_outcome>>
passwordVars == <<password_length, required, password_chars, shuffle_i,
                  password, password_pc>>
tokenVars == <<token_layout, token_text, token_value, token_pc>>
mergeVars == <<merge_dir, json_files, all_accounts, output_file, merge_pc>>
\* what the commands beside run_batch write
guiVars == <<running, gui_pc, threads, after_queue, last_click>>
commandVars == <<mergeVars, guiVars>>
libraryVars == <<parserVars, mailVars, passwordVars, tokenVars,
                 commandVars>>
giftVars == <<btn_text, gift_outcome>>
workflowVars == <<attempts, settingsVars, signupVars, giftVars, libraryVars>>
ghostVars == <<dequeued, started, workflowVars>>

Min(a, b) == IF a <= b THEN a ELSE b

Range(f) == {f[x] : x \in DOMAIN f}

\* ----------------------------------------------------------------- texts
\* Texts are sequences of one-character strings.

LowerLetters ==
    <<"a", "b", "c", "d", "e", "f", "g", "h", "i", "j", "k", "l", "m",
      "n", "o", "p", "q", "r", "s", "t", "u", "v", "w", "x", "y", "z">>

UpperLetters ==
    <<"A", "B", "C", "D", "E", "F", "G", "H", "I", "J", "K", "L", "M",
      "N", "O", "P", "Q", "R", "S", "T", "U", "V", "W", "X", "Y", "Z">>

DigitChars == {"0", "1", "2", "3", "4", "5", "6", "7", "8", "9"}

\* the classes \d, \s and \w of the re module on the characters of the model
IsDigit(c) == c \in DigitChars

IsSpace(c) == c \in {" ", "\n", "\t"}

WordChars == Range(LowerLetters) \cup Range(UpperLetters)
                 \cup DigitChars \cup {"_"}

IsWord(c) == c \in WordChars

\* str.lower() on one character and on a text
LowerChar(c) ==
    IF \E i \in 1..26 : UpperLetters[i] = c
      THEN LowerLetters[CHOOSE i \in 1..26 : UpperLetters[i] = c]
      ELSE c

Lower(text) == [k \in 1..Len(text) |-> LowerChar(text[k])]

\* Python slice text[a:b] for 0 <= a
Slice(text, a, b) == SubSeq(text, a + 1, Min(b, Len(text)))

\* Python "needle in text"
Contains(text, needle) ==
    \E k \in 0..(Len(text) - Len(needle)) :
        SubSeq(text, k + 1, k + Len(needle)) = needle

\* str.isspace(): not empty and whitespace only
IsSpaceText(text) ==
    text # <<>> /\ \A k \in 1..Len(text) : IsSpace(text[k])

\* \b between text[k] and text[k + 1] (k = 0: before the first character)
WordAt(text, k) == k >= 1 /\ k <= Len(text) /\ IsWord(text[k])

Boundary(text, k) == WordAt(text, k) # WordAt(text, k + 1)

\* str.strip(): leading and trailing whitespace removed
RECURSIVE StripLeft(_)
StripLeft(text) ==
    IF text # <<>> /\ IsSpace(text[1]) THEN StripLeft(Tail(text)) ELSE text

RECURSIVE StripRight(_)
StripRight(text) ==
    IF text # <<>> /\ IsSpace(text[Len(text)])
      THEN StripRight(SubSeq(text, 1, Len(text) - 1))
      ELSE text

Strip(text) == StripRight(StripLeft(text))

\* (mutant) the sentinel loop runs one time too few
QueueItemsOneSentinelShort(t, c) ==
    [i \in 1..(t + c - 1) |-> IF i <= t THEN i ELSE None]

\* (mutant) the sentinels are put on the queue ahead of the indices
QueueItemsSentinelsFirst(t, c) ==
    [i \in 1..(t + c) |-> IF i <= c THEN None ELSE i - c]

\* range(1, total + 1) followed by range(concurrency) sentinels
QueueItems(t, c) == [i \in 1..(t + c) |-> IF i <= t THEN i ELSE None]

\* ------------------------------------------------------------------ Init
InitCommon ==
    /\ concurrency = requested
    /\ main_pc = "validate"
    /\ queue = <<>>
    /\ unfinished_tasks = 0
    /\ tasks = {}
    /\ completed = 0
    /\ progress_lock = 0
    /\ accounts_lock = 0
    /\ pc = [w \in Workers |-> "unborn"]
    /\ index = [w \in Workers |-> None]
    /\ retry_count = [w \in Workers |-> 0]
    /\ token_response_text = [w \in Workers |-> NoText]
    /\ user_info_response_text = [w \in Workers |-> NoText]
    /\ exc = [w \in Workers |-> "none"]
    /\ connection = [w \in Workers |-> "none"]
    /\ accounts_file = <<>>
    /\ write_header = [w \in Workers |-> "none"]
    /\ cookies_dir = {}
    /\ accounts_dir = {}
    /\ cb_log = <<>>
    /\ cb_raised = FALSE
    /\ dequeued = [i \in Indices |-> 0]
    /\ started = [i \in Indices |-> 0]
    /\ handlers = <<>>
    /\ attempts = [w \in Workers |-> <<>>]
    /\ now = 0
    /\ deadline = [w \in Workers |-> 0]
    /\ attempt = [w \in Workers |-> 0]
    /\ last_verification_code = [w \in Workers |-> NoCode]
    /\ verification_code = [w \in Workers |-> NoCode]
    /\ sleeps = [w \in Workers |-> 0]
    /\ poll_entries = [w \in Workers |-> 0]
    /\ page_actions = [w \in Workers |-> {}]
    /\ signup_outcome = [w \in Workers |-> "none"]
    /\ btn_text = [w \in Workers |-> <<>>]
    /\ gift_outcome = [w \in Workers |-> "none"]

\* constants.py 14, 40-41: the default and the supported code lengths
DEFAULT_CODE_LENGTH == 6
MIN_CODE_LENGTH == 4
MAX_CODE_LENGTH == 8

\* The place of a block a text does not have
NoBlock == [kind |-> "none", lead |-> <<>>, trail |-> <<>>, sep |-> <<>>,
            wrap |-> "plain"]

\* No text has been given to the parser
NoLayout == [first |-> NoBlock, gap |-> <<>>, second |-> NoBlock]

ParserIdle ==
    /\ code_length = DEFAULT_CODE_LENGTH
    /\ layout = NoLayout
    /\ content = <<>>
    /\ candidates = <<>>
    /\ parsed = NoCode
    /\ parser_calls = {}

\* No message has been fetched
NoMessage == [headers |-> <<>>, body |-> <<>>]

MailIdle ==
    /\ email_address = <<>>
    /\ message = NoMessage
    /\ mail_pc = "idle"
    /\ fetched = 0
    /\ mailbox = <<>>
    /\ email_ids = <<>>
    /\ fetched_ids = {}
    /\ check_outcome = "none"

\* register.py 104-105: the least length of a password
MinPasswordLength == 8

\* generate_password has not been called
PasswordIdle ==
    /\ password_length = MinPasswordLength
    /\ required = <<>>
    /\ password_chars = <<>>
    /\ shuffle_i = 0
    /\ password = <<>>
    /\ password_pc = "idle"

\* The place of a text extract_token was not given
NoTokenLayout == [shape |-> "none", value |-> <<>>, old |-> FALSE]

\* extract_token has not been called
TokenIdle ==
    /\ token_layout = NoTokenLayout
    /\ token_text = <<>>
    /\ token_value = NoToken
    /\ token_pc = "idle"

\* The accounts directory is not there
NoDirectory == <<>>

\* The output file is not there
NoOutput == <<>>

\* merge_accounts_command has not been called
MergeIdle ==
    /\ merge_dir = NoDirectory
    /\ json_files = <<>>
    /\ all_accounts = <<>>
    /\ output_file = NoOutput
    /\ merge_pc = "idle"

\* gui.py line 202: the window is built, nothing has been clicked
GuiIdle ==
    /\ running = FALSE
    /\ gui_pc = "idle"
    /\ threads = <<>>
    /\ after_queue = 0
    /\ last_click = "none"

CommandIdle == MergeIdle /\ GuiIdle

LibraryIdle ==
    ParserIdle /\ MailIdle /\ PasswordIdle /\ TokenIdle /\ CommandIdle

\* Settings of the runs in which the poll loop is not stepped through
OneSetting ==
    /\ email_wait_timeout_s = MaxTimeout
    /\ email_poll_interval_s = 1

Init ==
    /\ total \in (-1)..MaxTotal
    /\ requested \in (-1)..MaxConc
    /\ progress_cb \in BOOLEAN
    /\ OneSetting
    /\ LibraryIdle
    /\ InitCommon

\* ------------------------------------------------------------- run_batch
\* (mutant) the concurrency check is missing
InvalidTotalOnly(t, c) == t <= 0

\* lines 522-525: the two argument checks
InvalidArguments(t, c) == t <= 0 \/ c <= 0

\* (mutant) the requested concurrency is used as it is
Unclamped(c, t) == c

\* line 527
Clamp(c, t) == Min(c, t)

\* lines 522-528: validation and clamp
Validate ==
    /\ main_pc = "validate"
    /\ IF InvalidArguments(total, concurrency)
         THEN /\ main_pc' = "ValueError"
              /\ UNCHANGED concurrency
         ELSE /\ concurrency' = Clamp(concurrency, total)
              /\ main_pc' = "build"
    /\ UNCHANGED <<argVars, tasks, queueVars, progressVars, workerVars,
                   slotVars, fileVars, ghostVars, handlers>>

\* lines 530-538: locks, queue of indices and sentinels, counter
BuildQueue ==
    /\ main_pc = "build"
    /\ queue' = QueueItems(total, concurrency)
    /\ unfinished_tasks' = Len(queue')
    /\ completed' = 0
    /\ accounts_lock' = 0
    /\ progress_lock' = 0
    /\ main_pc' = "spawn"
    /\ UNCHANGED <<argVars, concurrency, tasks, cb_log, cb_raised,
                   workerVars, slotVars, accounts_file, write_header,
                   cookies_dir, accounts_dir, ghostVars, handlers>>

\* line 566: one task per worker id 1..concurrency
SpawnWorkers ==
    /\ main_pc = "spawn"
    /\ tasks' = 1..concurrency
    /\ pc' = [w \in Workers |-> IF w <= concurrency THEN "get" ELSE pc[w]]
    /\ main_pc' = "join"
    /\ UNCHANGED <<argVars, concurrency, queueVars, progressVars, index,
                   retry_count, exc, connection, slotVars, fileVars,
                   ghostVars, handlers>>

\* line 567: await queue.join()
Join ==
    /\ main_pc = "join"
    /\ unfinished_tasks = 0
    /\ main_pc' = "gather"
    /\ UNCHANGED <<argVars, concurrency, tasks, queueVars, progressVars,
                   workerVars, slotVars, fileVars, ghostVars, handlers>>

\* line 568: await asyncio.gather(*tasks); the first exception of a task is
\* raised to the caller of run_batch
Gather ==
    /\ main_pc = "gather"
    /\ \A w \in tasks : pc[w] \in {"exited", "crashed"}
    /\ main_pc' = IF \E w \in tasks : pc[w] = "crashed"
                    THEN "raised" ELSE "final_cb"
    /\ UNCHANGED <<argVars, concurrency, tasks, queueVars, progressVars,
                   workerVars, slotVars, fileVars, ghostVars, handlers>>

\* lines 569-573: final progress callback, exceptions swallowed
FinalCallback ==
    /\ main_pc = "final_cb"
    /\ IF progress_cb
         THEN /\ cb_log' = Append(cb_log, total)
              /\ \E raises \in BOOLEAN : cb_raised' = (cb_raised \/ raises)
         ELSE UNCHANGED <<cb_log, cb_raised>>
    /\ main_pc' = "returned"
    /\ UNCHANGED <<argVars, concurrency, tasks, queueVars, completed,
                   progress_lock, workerVars, slotVars, fileVars, ghostVars,
                   handlers>>

\* ---------------------------------------------------------------- locks
\* (mutant) the critical section is entered without the lock
LockIgnored(lock) == TRUE

\* asyncio.Lock.acquire proceeds only when the lock is not held
LockFree(lock) == lock = 0

\* ------------------------------------------------------------ the worker
\* (mutant) the head is read but left on the queue
QueuePeeked(q) == q

\* asyncio.Queue.get removes the head of the queue
QueueAfterGet(q) == Tail(q)

\* (mutant) the worker has no except clause
CaughtNothing(e) == FALSE

\* line 553: "except Exception" catches every exception a workflow raises
CaughtAtBoundary(e) == e # "none"

\* lines 543-549: dequeue; a sentinel returns through the finally block, an
\* index builds a fresh registrar and enters run_one (lines 250-254, 420-423)
Dequeue(w) ==
    /\ pc[w] = "get"
    /\ queue # <<>>
    /\ index' = [index EXCEPT ![w] = Head(queue)]
    /\ queue' = QueueAfterGet(queue)
    /\ IF Head(queue) = None
         THEN /\ pc' = [pc EXCEPT ![w] = "finally"]
              /\ UNCHANGED <<slotVars, ghostVars>>
         ELSE /\ pc' = [pc EXCEPT ![w] = "mail"]
              /\ token_response_text' =
                     [token_response_text EXCEPT ![w] = NoText]
              /\ user_info_response_text' =
                     [user_info_response_text EXCEPT ![w] = NoText]
              /\ dequeued' = [dequeued EXCEPT ![Head(queue)] = @ + 1]
              /\ started' = [started EXCEPT ![Head(queue)] = @ + 1]
              /\ attempts' = [attempts EXCEPT ![w] = <<>>]
              /\ deadline' = [deadline EXCEPT ![w] = 0]
              /\ attempt' = [attempt EXCEPT ![w] = 0]
              /\ last_verification_code' =
                     [last_verification_code EXCEPT ![w] = NoCode]
              /\ verification_code' =
                     [verification_code EXCEPT ![w] = NoCode]
              /\ sleeps' = [sleeps EXCEPT ![w] = 0]
              /\ poll_entries' = [poll_entries EXCEPT ![w] = 0]
              /\ page_actions' = [page_actions EXCEPT ![w] = {}]
              /\ signup_outcome' = [signup_outcome EXCEPT ![w] = "none"]
              /\ btn_text' = [btn_text EXCEPT ![w] = <<>>]
              /\ gift_outcome' = [gift_outcome EXCEPT ![w] = "none"]
              /\ UNCHANGED <<settingsVars, now, libraryVars>>
    /\ UNCHANGED <<mainVars, unfinished_tasks, progressVars, retry_count,
                   exc, connection, fileVars, handlers>>

\* (mutant) the field is reset only when the logout returned
CloseUnlessLogoutRaises(c, logout_raises) ==
    IF c = "connected" /\ ~logout_raises THEN "none" ELSE c

\* connection.py 164-177: IMAPConnection.close.  With a connection, logout
\* runs; what it raises is caught and logged (line 174); the field is None
\* afterwards either way (finally, line 177).  Without one, nothing is done.
close(c, logout_raises) ==
    IF c = "connected" THEN "none" ELSE c

\* mail_client.py 79-89 and 153-158: control leaves the async with block of
\* register.py line 423, __aexit__ awaits close(); it returns None, so the
\* exception in flight, if any, travels on unchanged
Aexit(w) ==
    connection' \in {[connection EXCEPT ![w] = close(@, logout_raises)] :
                        logout_raises \in BOOLEAN}

\* (mutant) the exception is recorded and the workflow goes on
RaiseSwallowed(w, e) ==
    /\ exc' = [exc EXCEPT ![w] = e]
    /\ UNCHANGED <<pc, retry_count, connection>>

\* A workflow step of worker w raises e: the exception travels to the worker
\* boundary (line 553).
Raise(w, e) ==
    /\ pc' = [pc EXCEPT ![w] = "finally"]
    /\ exc' = [exc EXCEPT ![w] = e]
    /\ Aexit(w)
    /\ UNCHANGED retry_count

\* line 518: run_one returns None through the async with block
Return(w) ==
    /\ pc' = [pc EXCEPT ![w] = "finally"]
    /\ Aexit(w)
    /\ UNCHANGED <<exc, retry_count>>

\* A workflow step of worker w returns and run_one goes on to its next await
Goto(w, label) ==
    /\ pc' = [pc EXCEPT ![w] = label]
    /\ UNCHANGED <<exc, retry_count, connection>>

\* mail_client.py 68-77, connection.py line 57: __aenter__ awaits connect(),
\* which sets the field, and run_one goes on inside the block
Aenter(w, label) ==
    /\ pc' = [pc EXCEPT ![w] = label]
    /\ connection' = [connection EXCEPT ![w] = "connected"]
    /\ UNCHANGED <<exc, retry_count>>

\* A step that begins before the block raises e: connect() raised and the
\* field is None as it was (connection.py 59-65), or the mailbox was
\* connected, the step raised inside the block and __aexit__ closed it
RaiseOpening(w, e) ==
    /\ pc' = [pc EXCEPT ![w] = "finally"]
    /\ exc' = [exc EXCEPT ![w] = e]
    /\ connection' \in
           {[connection EXCEPT ![w] = close(c, logout_raises)] :
               c \in {connection[w], "connected"},
               logout_raises \in BOOLEAN}
    /\ UNCHANGED retry_count

\* lines 423-428: mailbox connection, identity.  connect() raises, or
\* get_email returning nothing raises RuntimeError inside the block
OpenMailbox(w) ==
    /\ pc[w] = "mail"
    /\ \/ Aenter(w, "launch")
       \/ RaiseOpening(w, "Exception")
    /\ UNCHANGED <<mainVars, queueVars, progressVars, index, slotVars,
                   fileVars, ghostVars, handlers>>

\* lines 430-444: browser, context, page, response listener
LaunchBrowser(w) ==
    /\ pc[w] = "launch"
    /\ \/ Goto(w, "signup")
       \/ Raise(w, "Exception")
    /\ UNCHANGED <<mainVars, queueVars, progressVars, index, slotVars,
                   fileVars, ghostVars, handlers>>

\* line 446: the signup phase returns or raises
SignUp(w) ==
    /\ pc[w] = "signup"
    /\ \/ Goto(w, "save_account")
       \/ Raise(w, "SignupError")
    /\ UNCHANGED <<mainVars, queueVars, progressVars, index, slotVars,
                   fileVars, ghostVars, handlers>>

\* line 147: async with lock
AcquireAccountsLock(w) ==
    /\ pc[w] = "save_account"
    /\ LockFree(accounts_lock)
    /\ accounts_lock' = w
    /\ Goto(w, "appending")
    /\ UNCHANGED <<mainVars, queueVars, progressVars, index, slotVars,
                   accounts_file, write_header, cookies_dir, accounts_dir,
                   ghostVars, handlers>>

\* (mutant) the worker goes on with the lock
LockKept(w) == w

\* line 147: leaving the async with block releases the lock, on a return
\* and on an exception
LockReleased(w) == 0

\* (mutant) the header is written by every append
HeaderAlways(file) == "yes"

\* line 139: not accounts_file.exists() or st_size == 0; a file that is
\* absent and a file that is empty both have no line
WriteHeader(file) == IF file = <<>> THEN "yes" ELSE "no"

\* lines 140-143: the file is opened for appending; the header if
\* write_header, then the account line
AppendAccountSync(file, header, email) ==
    IF header = "yes" THEN file \o <<Header, email>> ELSE Append(file, email)

\* lines 148, 139: the append runs in a thread while the event loop goes on
\* with the other workers; it looks at the file first
AppendCheck(w) ==
    /\ pc[w] = "appending"
    /\ write_header[w] = "none"
    /\ \/ /\ write_header' = [write_header EXCEPT
                                  ![w] = WriteHeader(accounts_file)]
          /\ UNCHANGED <<accounts_lock, workerVars>>
       \/ /\ accounts_lock' = LockReleased(w)
          /\ Raise(w, "Exception")
          /\ UNCHANGED <<write_header, index>>
    /\ UNCHANGED <<mainVars, queueVars, progressVars, slotVars,
                   accounts_file, cookies_dir, accounts_dir, ghostVars,
                   handlers>>

\* lines 140-143, 147-149: the thread writes and returns, or raises; the
\* lock is released when the async with block is left either way
AppendAccount(w) ==
    /\ pc[w] = "appending"
    /\ write_header[w] # "none"
    /\ accounts_lock' = LockReleased(w)
    /\ write_header' = [write_header EXCEPT ![w] = "none"]
    /\ \/ /\ accounts_file' = AppendAccountSync(accounts_file,
                                                 write_header[w], index[w])
          /\ Goto(w, "settle")
       \/ /\ UNCHANGED accounts_file
          /\ Raise(w, "Exception")
    /\ UNCHANGED <<mainVars, queueVars, progressVars, index, slotVars,
                   cookies_dir, accounts_dir, ghostVars, handlers>>

\* lines 449-455: network idle, settle pause, retry_count = 0
Settle(w) ==
    /\ pc[w] = "settle"
    /\ \/ /\ pc' = [pc EXCEPT ![w] = "token_loop"]
          /\ retry_count' = [retry_count EXCEPT ![w] = 0]
          /\ UNCHANGED <<exc, connection>>
       \/ Raise(w, "Exception")
    /\ UNCHANGED <<mainVars, queueVars, progressVars, index, slotVars,
                   fileVars, ghostVars, handlers>>

\* (mutant) off by one in the loop condition
MayRetryOnceMore(w) ==
    token_response_text[w] = NoText /\ retry_count[w] <= max_retries

\* line 457: the loop condition
MayRetry(w) ==
    token_response_text[w] = NoText /\ retry_count[w] < max_retries

\* (mutant) the attempt is not counted
NextAttemptUncounted(n) == n

\* line 458: retry_count += 1, ahead of the try block
NextAttempt(n) == n + 1

\* lines 457-465: one more attempt, listener re-armed, reload started
ReloadStart(w) ==
    /\ pc[w] = "token_loop"
    /\ MayRetry(w)
    /\ retry_count' = [retry_count EXCEPT ![w] = NextAttempt(@)]
    /\ pc' = [pc EXCEPT ![w] = "reloading"]
    /\ attempts' = [attempts EXCEPT ![w] = Append(@, "pending")]
    /\ UNCHANGED <<mainVars, queueVars, progressVars, index, exc,
                   connection, slotVars, fileVars, dequeued, started,
                   handlers, settingsVars, signupVars, giftVars,
                   libraryVars>>

\* lines 465-473: the reload and its two waits return (break when the token
\* is there) or one of them raises (caught at line 472, logged); either way
\* control is back at the loop head with retry_count as it was
ReloadEnd(w) ==
    /\ pc[w] = "reloading"
    /\ Goto(w, "token_loop")
    /\ \E outcome \in {"returned", "raised"} :
          attempts' = [attempts EXCEPT ![w] =
                          [@ EXCEPT ![Len(@)] = outcome]]
    /\ UNCHANGED <<mainVars, queueVars, progressVars, index, slotVars,
                   fileVars, dequeued, started, handlers, settingsVars,
                   signupVars, giftVars, libraryVars>>

\* lines 475-479: after the loop (retry_count is not read again)
TokenCheck(w) ==
    /\ pc[w] = "token_loop"
    /\ ~MayRetry(w)
    /\ IF token_response_text[w] = NoText
         THEN Raise(w, "TokenCaptureError")
         ELSE /\ pc' = [pc EXCEPT ![w] = "gift"]
              /\ retry_count' = [retry_count EXCEPT ![w] = 0]
              /\ UNCHANGED <<exc, connection>>
    /\ UNCHANGED <<mainVars, queueVars, progressVars, index, slotVars,
                   fileVars, ghostVars, handlers>>

\* line 481: context.cookies()
ReadCookies(w) ==
    /\ pc[w] = "cookies"
    /\ \/ Goto(w, "save_session")
       \/ Raise(w, "Exception")
    /\ UNCHANGED <<mainVars, queueVars, progressVars, index, slotVars,
                   fileVars, ghostVars, handlers>>

\* ------------------------------------------------------------ extract_token
\* json.loads on the texts of the model: objects, arrays, strings without
\* escapes, unsigned integers, null, and whitespace between the tokens.  A
\* parsed value is a record: its type, the characters of a string or a
\* number, the members of an object (key and value) or of an array.

JValue(type, str, members) ==
    [type |-> type, str |-> str, members |-> members]

JNull == JValue("null", <<>>, <<>>)

\* the default of obj.get("Result", {})
EmptyObject == JValue("object", <<>>, <<>>)

\* json.loads raises ValueError (json.JSONDecodeError)
Malformed == [ok |-> FALSE, next |-> 0, value |-> JNull]

Parsed(value, next) == [ok |-> TRUE, next |-> next, value |-> value]

\* the first index from k on that holds no whitespace, Len(text) + 1 when
\* there is none
SkipSpace(text, k) ==
    LET rest == {j \in k..Len(text) : ~IsSpace(text[j])}
    IN  IF rest = {} THEN Len(text) + 1
        ELSE CHOOSE j \in rest : \A i \in rest : j <= i

CharAt(text, k) == IF k >= 1 /\ k <= Len(text) THEN text[k] ELSE ""

\* a string that opens at k: up to the next quote, no control character
\* inside
ParseString(text, k) ==
    LET quotes == {j \in (k + 1)..Len(text) : text[j] = "\""}
    IN  IF quotes = {} THEN Malformed
        ELSE LET quote == CHOOSE j \in quotes : \A i \in quotes : j <= i
                 str == SubSeq(text, k + 1, quote - 1)
             IN  IF \E i \in DOMAIN str : str[i] \in {"\n", "\t"}
                   THEN Malformed
                   ELSE Parsed(JValue("string", str, <<>>), quote + 1)

\* an unsigned integer that starts at k
ParseNumber(text, k) ==
    LET stops == {j \in k..Len(text) : ~IsDigit(text[j])}
        end == IF stops = {} THEN Len(text)
               ELSE (CHOOSE j \in stops : \A i \in stops : j <= i) - 1
    IN  Parsed(JValue("number", SubSeq(text, k, end), <<>>), end + 1)

RECURSIVE ParseValue(_, _)
RECURSIVE ParseMembers(_, _, _)
RECURSIVE ParseElements(_, _, _)

\* the value that starts at index k (no whitespace at k)
ParseValue(text, k) ==
    IF CharAt(text, k) = "\"" THEN ParseString(text, k)
    ELSE IF IsDigit(CharAt(text, k)) THEN ParseNumber(text, k)
    ELSE IF SubSeq(text, k, Min(k + 3, Len(text))) = <<"n", "u", "l", "l">>
      THEN Parsed(JNull, k + 4)
    ELSE IF CharAt(text, k) = "{"
      THEN IF CharAt(text, SkipSpace(text, k + 1)) = "}"
             THEN Parsed(EmptyObject, SkipSpace(text, k + 1) + 1)
             ELSE ParseMembers(text, SkipSpace(text, k + 1), <<>>)
    ELSE IF CharAt(text, k) = "["
      THEN IF CharAt(text, SkipSpace(text, k + 1)) = "]"
             THEN Parsed(JValue("array", <<>>, <<>>),
                         SkipSpace(text, k + 1) + 1)
             ELSE ParseElements(text, SkipSpace(text, k + 1), <<>>)
    ELSE Malformed

\* after a member's value: the closing brace, or a comma and the next
\* member
MembersAfter(text, all, after) ==
    IF CharAt(text, after) = "}"
      THEN Parsed(JValue("object", <<>>, all), after + 1)
    ELSE IF CharAt(text, after) = ","
      THEN ParseMembers(text, SkipSpace(text, after + 1), all)
    ELSE Malformed

\* a member whose key and value were read
MemberValue(text, members, key, val) ==
    IF ~val.ok THEN Malformed
    ELSE MembersAfter(text,
                      Append(members, [key |-> key.value.str,
                                       value |-> val.value]),
                      SkipSpace(text, val.next))

\* a member whose key was read: the colon, then the value
MemberKey(text, members, key) ==
    IF key.ok /\ CharAt(text, SkipSpace(text, key.next)) = ":"
      THEN MemberValue(text, members, key,
                       ParseValue(text,
                                  SkipSpace(text,
                                            SkipSpace(text, key.next) + 1)))
      ELSE Malformed

\* the members of an object from the key at k on: "key" : value, then a
\* comma and the next member, or the closing brace
ParseMembers(text, k, members) ==
    IF CharAt(text, k) = "\""
      THEN MemberKey(text, members, ParseString(text, k))
      ELSE Malformed

\* after an element: the closing bracket, or a comma and the next element
ElementsAfter(text, all, after) ==
    IF CharAt(text, after) = "]"
      THEN Parsed(JValue("array", <<>>, all), after + 1)
    ELSE IF CharAt(text, after) = ","
      THEN ParseElements(text, SkipSpace(text, after + 1), all)
    ELSE Malformed

\* an element that was read
ElementValue(text, elements, val) ==
    IF ~val.ok THEN Malformed
    ELSE ElementsAfter(text,
                       Append(elements, [key |-> <<>>, value |-> val.value]),
                       SkipSpace(text, val.next))

\* the elements of an array from the value at k on
ParseElements(text, k, elements) ==
    ElementValue(text, elements, ParseValue(text, k))

\* the value that was read is all there is, but for whitespace
Whole(text, r) ==
    IF r.ok /\ SkipSpace(text, r.next) > Len(text) THEN r ELSE Malformed

\* json.loads(text): one value, whitespace around it, nothing else
json_loads(text) == Whole(text, ParseValue(text, SkipSpace(text, 1)))

\* dict.get(key, default): of the members with that key the last one counts
Get(obj, key, default) ==
    LET at == {i \in DOMAIN obj.members : obj.members[i].key = key}
    IN  IF at = {} THEN default
        ELSE obj.members[CHOOSE i \in at : \A j \in at : j <= i].value

\* line 54: the class [\w-]
IsTokenChar(c) == IsWord(c) \/ c = "-"

\* the end of the run [\w-]+ that starts at k, 0 when there is none
RunEnd(text, k) ==
    IF ~IsTokenChar(CharAt(text, k)) THEN 0
    ELSE LET stops == {j \in k..Len(text) : ~IsTokenChar(text[j])}
         IN  IF stops = {} THEN Len(text)
             ELSE (CHOOSE j \in stops : \A i \in stops : j <= i) - 1

\* line 54: eyJ[\w-]+\.[\w-]+\.[\w-]+ tried at index k: the index of the
\* last matched character, 0 when there is no match at k
JwtAt(text, k) ==
    IF SubSeq(text, k, Min(k + 2, Len(text))) # <<"e", "y", "J">> THEN 0
    ELSE LET first == RunEnd(text, k + 3)
             second == IF first # 0 /\ CharAt(text, first + 1) = "."
                         THEN RunEnd(text, first + 2) ELSE 0
         IN  IF second # 0 /\ CharAt(text, second + 1) = "."
               THEN RunEnd(text, second + 2)
               ELSE 0

\* lines 134-135: JWT_RE.search(text), group(0) of the first match
JwtSearch(text) ==
    LET starts == {k \in 1..Len(text) : JwtAt(text, k) # 0}
    IN  IF starts = {} THEN NoToken
        ELSE LET k == CHOOSE s \in starts : \A t \in starts : s <= t
             IN  SubSeq(text, k, JwtAt(text, k))

ResultKey == <<"R", "e", "s", "u", "l", "t">>

TokenKey == <<"T", "o", "k", "e", "n">>

\* (mutant) the token is returned as it is written
TokenAsWritten(token) == token

\* line 130: token.strip()
Stripped(token) == Strip(token)

\* lines 129-130: isinstance(token, str) and token.strip()
TryToken(token) ==
    IF token.type = "string" /\ Strip(token.str) # <<>>
      THEN [ends |-> "return", token |-> Stripped(token.str)]
      ELSE [ends |-> "fall", token |-> NoToken]

\* line 128: .get("Token") of what .get("Result", {}) gave
TryResult(result) ==
    IF result.type # "object"
      THEN [ends |-> "AttributeError", token |-> NoToken]
      ELSE TryToken(Get(result, TokenKey, JNull))

\* lines 127-128: .get("Result", {}) of what json.loads gave
TryLoaded(obj) ==
    IF ~obj.ok THEN [ends |-> "ValueError", token |-> NoToken]
    ELSE IF obj.value.type # "object"
      THEN [ends |-> "AttributeError", token |-> NoToken]
    ELSE TryResult(Get(obj.value, ResultKey, EmptyObject))

\* lines 126-132: how the try block ends: it returns a token, it falls
\* through (no string, or a blank one, at Result.Token), or one of its
\* calls raises
TryBlock(text) == TryLoaded(json_loads(text))

\* line 131: except Exception
CaughtInExtract(e) == e \in {"ValueError", "AttributeError"}

\* an exception of the try block leaves extract_token
ExtractRaises(text) ==
    /\ text # <<>>
    /\ ~CaughtInExtract(TryBlock(text).ends)
    /\ TryBlock(text).ends \notin {"return", "fall"}

\* lines 129-135: the token of the try block, or the first JWT of the text
AfterTry(text, try) ==
    IF try.ends = "return" THEN try.token ELSE JwtSearch(text)

\* lines 123-135, for a call that does not raise
extract_token(text) ==
    IF text = <<>> THEN NoToken ELSE AfterTry(text, TryBlock(text))

\* the characters of the response bodies of the model:
\* bodyA is {"Result":{"Token":"eyJa.b.c"}}, bodyB is {"Result":{}}
JwtA == <<"e", "y", "J", "a", ".", "b", ".", "c">>

ResponseText(body) ==
    IF body = "bodyA"
      THEN <<"{", "\"">> \o ResultKey \o <<"\"", ":", "{", "\"">> \o
               TokenKey \o <<"\"", ":", "\"">> \o JwtA \o
               <<"\"", "}", "}">>
    ELSE IF body = "bodyB"
      THEN <<"{", "\"">> \o ResultKey \o <<"\"", ":", "{", "}", "}">>
    ELSE <<>>

\* lines 163-170 and 178-232: the two records of one account
SessionRecord(w) ==
    [email |-> index[w],
     token |-> extract_token(ResponseText(token_response_text[w]))]

AccountRecord(w) ==
    [email |-> index[w],
     jwt_token |-> extract_token(ResponseText(token_response_text[w])),
     user_info |-> user_info_response_text[w] # NoText]

\* lines 482-503, 163-170: the legacy session record
SaveSession(w) ==
    /\ pc[w] = "save_session"
    /\ \/ /\ cookies_dir' = cookies_dir \cup {SessionRecord(w)}
          /\ Goto(w, "save_account_data")
       \/ /\ UNCHANGED cookies_dir
          /\ Raise(w, "Exception")
    /\ UNCHANGED <<mainVars, queueVars, progressVars, index, slotVars,
                   accounts_lock, accounts_file, write_header, accounts_dir,
                   ghostVars, handlers>>

\* lines 506-513, 178-232: the structured account record
SaveAccountData(w) ==
    /\ pc[w] = "save_account_data"
    /\ \/ /\ accounts_dir' = accounts_dir \cup {AccountRecord(w)}
          /\ Goto(w, "teardown")
       \/ /\ UNCHANGED accounts_dir
          /\ Raise(w, "Exception")
    /\ UNCHANGED <<mainVars, queueVars, progressVars, index, slotVars,
                   accounts_lock, accounts_file, write_header, cookies_dir,
                   ghostVars, handlers>>

\* lines 515-518: pause, context and browser closed, run_one returns
Teardown(w) ==
    /\ pc[w] = "teardown"
    /\ \/ Return(w)
       \/ Raise(w, "Exception")
    /\ UNCHANGED <<mainVars, queueVars, progressVars, index, slotVars,
                   fileVars, ghostVars, handlers>>

\* (mutant) the index is reported instead of the counter
DoneValueOfIndex(w) == index[w]

\* (mutant) the callback is given the value the counter had before
DoneValueStale(w) == completed - 1

\* line 562: the first argument of the per-index progress callback
DoneValue(w) == completed

\* (mutant) the callback is called outside a try block
AfterCallbackPropagates(w, raises) ==
    IF raises \/ exc[w] # "none" THEN "crashed" ELSE "get"

\* lines 561-564: an exception of the callback is swallowed and the worker
\* loops; an exception the boundary did not catch ends the task
AfterCallback(w, raises) ==
    IF exc[w] # "none" THEN "crashed" ELSE "get"

\* (mutant) the progress section is entered for a sentinel as well
AfterTaskDoneAlways(i) == "progress"

\* line 557: if index is not None; a sentinel has returned at line 546 and
\* its task ends with the finally block
AfterTaskDone(i) == IF i = None THEN "exited" ELSE "progress"

\* lines 551-557: the exception, if any, is logged and dropped;
\* queue.task_done(); a sentinel ends the task.  The registrar and the
\* locals of run_one are unreachable from here on; the page is closed and
\* its pending listener invocations have nothing left to write to.
Finally(w) ==
    /\ pc[w] = "finally"
    /\ unfinished_tasks' = unfinished_tasks - 1
    /\ exc' = [exc EXCEPT ![w] =
                   IF CaughtAtBoundary(@) THEN "none" ELSE @]
    /\ pc' = [pc EXCEPT ![w] = AfterTaskDone(index[w])]
    /\ retry_count' = [retry_count EXCEPT ![w] = 0]
    /\ token_response_text' = [token_response_text EXCEPT ![w] = NoText]
    /\ user_info_response_text' =
           [user_info_response_text EXCEPT ![w] = NoText]
    /\ handlers' = [h \in DOMAIN handlers |->
                       IF handlers[h].w = w THEN Finished ELSE handlers[h]]
    /\ attempts' = [attempts EXCEPT ![w] = <<>>]
    /\ UNCHANGED <<mainVars, queue, progressVars, index, connection,
                   fileVars, dequeued, started, settingsVars, signupVars,
                   giftVars, libraryVars>>

\* (mutant) the workflow is not counted
NotCounted(n) == n

\* line 559: completed += 1
Counted(n) == n + 1

\* lines 558-559: async with progress_lock; completed += 1
ProgressEnter(w) ==
    /\ pc[w] = "progress"
    /\ LockFree(progress_lock)
    /\ progress_lock' = w
    /\ completed' = Counted(completed)
    /\ pc' = [pc EXCEPT ![w] = "callback"]
    /\ UNCHANGED <<mainVars, queueVars, cb_log, cb_raised, index,
                   retry_count, exc, connection, slotVars, fileVars,
                   ghostVars, handlers>>

\* lines 560-564: progress_cb(completed, total) under the lock, swallowed;
\* index is assigned by the next queue.get before it is read again
ProgressCallback(w) ==
    /\ pc[w] = "callback"
    /\ progress_lock' = 0
    /\ \E raises \in BOOLEAN :
          /\ IF progress_cb
               THEN /\ cb_log' = Append(cb_log, DoneValue(w))
                    /\ cb_raised' = (cb_raised \/ raises)
               ELSE /\ raises = FALSE
                    /\ UNCHANGED <<cb_log, cb_raised>>
          /\ pc' = [pc EXCEPT ![w] = AfterCallback(w, raises)]
    /\ index' = [index EXCEPT ![w] = None]
    /\ UNCHANGED <<mainVars, queueVars, completed, retry_count, exc,
                   connection, slotVars, fileVars, ghostVars, handlers>>

\* ------------------------------------------------- the signup phase
\* TraeRegistrar._sign_up step by step, with the poll loop of
\* _wait_for_verification_code.  Time is read from the event-loop clock
\* now, which advances while the loop awaits.

\* what the steps of the signup phase leave alone
SignUpFrame ==
    UNCHANGED <<mainVars, queueVars, progressVars, index, slotVars,
                fileVars, dequeued, started, handlers, attempts,
                settingsVars, giftVars, libraryVars>>

\* lines 355-367: signup page, email filled, Send Code clicked
RequestCode(w) ==
    /\ pc[w] = "signup"
    /\ \/ /\ Goto(w, "poll_enter")
          /\ page_actions' = [page_actions EXCEPT
                                  ![w] = @ \cup {"email", "send_code"}]
       \/ /\ Raise(w, "SignupError")
          /\ UNCHANGED page_actions
    /\ UNCHANGED <<pollVars, signup_outcome>>
    /\ SignUpFrame

\* lines 313-314: the deadline is computed, attempt = 0
PollEnter(w) ==
    /\ pc[w] = "poll_enter"
    /\ deadline' = [deadline EXCEPT ![w] = now + email_wait_timeout_s]
    /\ attempt' = [attempt EXCEPT ![w] = 0]
    /\ poll_entries' = [poll_entries EXCEPT ![w] = @ + 1]
    /\ Goto(w, "poll_head")
    /\ UNCHANGED <<now, last_verification_code, verification_code, sleeps,
                   page_actions, signup_outcome>>
    /\ SignUpFrame

\* (mutant) a check is started at the deadline itself
UpToDeadline(t, d) == t <= d

\* line 315: the loop condition
BeforeDeadline(t, d) == t < d

\* lines 315-317: the loop goes on, attempt += 1, check_emails is called
PollCheck(w) ==
    /\ pc[w] = "poll_head"
    /\ BeforeDeadline(now, deadline[w])
    /\ attempt' = [attempt EXCEPT ![w] = @ + 1]
    /\ Goto(w, "checking")
    /\ UNCHANGED <<now, deadline, last_verification_code,
                   verification_code, sleeps, poll_entries, page_actions,
                   signup_outcome>>
    /\ SignUpFrame

\* lines 315, 322: the deadline has passed, the loop returns None
PollExpire(w) ==
    /\ pc[w] = "poll_head"
    /\ ~BeforeDeadline(now, deadline[w])
    /\ verification_code' = [verification_code EXCEPT ![w] = NoCode]
    /\ Goto(w, "poll_returned")
    /\ UNCHANGED <<now, deadline, attempt, last_verification_code, sleeps,
                   poll_entries, page_actions, signup_outcome>>
    /\ SignUpFrame

\* lines 317-320: check_emails takes some time and returns (it raises
\* nothing, mail_client.py 131-151); it has stored a code or left
\* last_verification_code as it was; a stored code is returned at once
CheckEmails(w) ==
    /\ pc[w] = "checking"
    /\ \E d \in 0..MaxDelay, found \in Codes \cup {NoCode} :
          /\ now + d <= MaxClock
          /\ now' = now + d
          /\ last_verification_code' = [last_verification_code EXCEPT
                 ![w] = IF found # NoCode THEN found ELSE @]
    /\ IF last_verification_code'[w] # NoCode
         THEN /\ verification_code' = [verification_code EXCEPT
                     ![w] = last_verification_code'[w]]
              /\ Goto(w, "poll_returned")
         ELSE /\ UNCHANGED verification_code
              /\ Goto(w, "sleeping")
    /\ UNCHANGED <<deadline, attempt, sleeps, poll_entries, page_actions,
                   signup_outcome>>
    /\ SignUpFrame

\* line 321: asyncio.sleep(poll_interval_s) takes at least that long
PollSleep(w) ==
    /\ pc[w] = "sleeping"
    /\ \E d \in 0..MaxDelay :
          /\ now + email_poll_interval_s + d <= MaxClock
          /\ now' = now + email_poll_interval_s + d
    /\ sleeps' = [sleeps EXCEPT ![w] = @ + 1]
    /\ Goto(w, "poll_head")
    /\ UNCHANGED <<deadline, attempt, last_verification_code,
                   verification_code, poll_entries, page_actions,
                   signup_outcome>>
    /\ SignUpFrame

\* (mutant) the result of the poll loop is not tested
CodeMissingIgnored(code) == FALSE

\* line 374: "if not verification_code"
CodeMissing(code) == code = NoCode

\* lines 374-377: no code, the signup phase raises
CodeCheck(w) ==
    /\ pc[w] = "poll_returned"
    /\ IF CodeMissing(verification_code[w])
         THEN /\ Raise(w, "VerificationTimeout")
              /\ signup_outcome' = [signup_outcome EXCEPT ![w] = "no_code"]
         ELSE /\ Goto(w, "enter_code")
              /\ UNCHANGED signup_outcome
    /\ UNCHANGED <<pollVars, page_actions>>
    /\ SignUpFrame

\* lines 379-387: the code field, then the password field, each awaited
\* visible and filled
EnterCode(w) ==
    /\ pc[w] = "enter_code"
    /\ \/ /\ Goto(w, "submit")
          /\ page_actions' = [page_actions EXCEPT
                                  ![w] = @ \cup {"code", "password"}]
       \/ /\ Raise(w, "SignupError")
          /\ page_actions' = [page_actions EXCEPT ![w] = @ \cup {"code"}]
       \/ /\ Raise(w, "SignupError")
          /\ UNCHANGED page_actions
    /\ UNCHANGED <<pollVars, signup_outcome>>
    /\ SignUpFrame

\* lines 389-399: a Sign Up button is clicked, or there is none
Submit(w) ==
    /\ pc[w] = "submit"
    /\ \E btn_count \in 0..2 :
          IF btn_count >= 1
            THEN /\ page_actions' = [page_actions EXCEPT
                                        ![w] = @ \cup {"submit"}]
                 /\ \/ Goto(w, "await_redirect")
                    \/ Raise(w, "SignupError")
            ELSE /\ UNCHANGED page_actions
                 /\ Raise(w, "SignupError")
    /\ UNCHANGED <<pollVars, signup_outcome>>
    /\ SignUpFrame

\* lines 401-417: the page leaves the signup path within the navigation
\* timeout; or the wait raises and an inline error element is there (the
\* phase raises with its text); or there is none and the page is still on
\* the signup path (warning, screenshot, the phase returns; the screenshot
\* may raise); or there is none and the page has left the signup path
AwaitRedirect(w) ==
    /\ pc[w] = "await_redirect"
    /\ \/ /\ signup_outcome' = [signup_outcome EXCEPT ![w] = "redirected"]
          /\ Goto(w, "save_account")
       \/ /\ signup_outcome' = [signup_outcome EXCEPT ![w] = "rejected"]
          /\ Raise(w, "RegistrationRejected")
       \/ /\ signup_outcome' = [signup_outcome EXCEPT
                                    ![w] = "timeout_on_signup"]
          /\ \/ Goto(w, "save_account")
             \/ Raise(w, "Exception")
       \/ /\ signup_outcome' = [signup_outcome EXCEPT
                                    ![w] = "timeout_redirected"]
          /\ Goto(w, "save_account")
    /\ UNCHANGED <<pollVars, page_actions>>
    /\ SignUpFrame

\* ------------------------------------------------- the response listener
\* Positions of run_one at which the page exists and the listener is armed
\* (from line 444 to the end of the browser block)
ListenerArmed ==
    {"signup", "poll_enter", "poll_head", "checking", "sleeping",
     "poll_returned", "enter_code", "submit", "await_redirect",
     "save_account", "appending", "settle", "token_loop", "reloading",
     "gift", "gift_control", "gift_text", "gift_click",
     "gift_status", "cookies", "save_session", "save_account_data",
     "teardown"}

Kinds == {"GetUserToken", "GetUserInfo"}

\* lines 262 and 293 (token), 275 (user info): the guard of a capture block
SlotEmpty(slot) == slot = NoText

\* lines 264, 277, 295: the assignment that follows the awaited body read
Captured(slot, body) == body

\* lines 257-264, 275-277: a response event reaches the listener of worker
\* w's page; the invocation runs up to its first await of response.text(),
\* or to its end when no capture block applies
Respond(w) ==
    /\ pc[w] \in ListenerArmed
    /\ Len(handlers) < MaxResponses
    /\ \E kind \in Kinds, body \in Bodies :
          LET slot == IF kind = "GetUserToken"
                        THEN token_response_text[w]
                        ELSE user_info_response_text[w]
              at == IF ~SlotEmpty(slot) THEN "done"
                    ELSE IF kind = "GetUserToken" THEN "read1" ELSE "read2"
          IN  handlers' = Append(handlers,
                  IF at = "done" THEN Finished
                  ELSE [w |-> w, kind |-> kind, body |-> body, at |-> at])
    /\ UNCHANGED <<mainVars, queueVars, progressVars, workerVars, slotVars,
                   fileVars, ghostVars>>

\* lines 264-273 and 293-295: the first read of a token body returns and the
\* slot is assigned, or it raises (caught) and the second token block, line
\* 293, reads again when the slot is still empty
TokenRead1(h) ==
    /\ h \in DOMAIN handlers
    /\ handlers[h].at = "read1"
    /\ pc[handlers[h].w] \in ListenerArmed
    /\ LET w == handlers[h].w IN
          \/ /\ token_response_text' = [token_response_text EXCEPT
                    ![w] = Captured(@, handlers[h].body)]
             /\ handlers' = [handlers EXCEPT ![h] = Finished]
          \/ /\ UNCHANGED token_response_text
             /\ handlers' = [handlers EXCEPT ![h] =
                    IF SlotEmpty(token_response_text[w])
                      THEN [@ EXCEPT !.at = "read3"] ELSE Finished]
    /\ UNCHANGED <<mainVars, queueVars, progressVars, workerVars,
                   user_info_response_text, fileVars, ghostVars>>

\* lines 295-304: the read of the second token block returns or raises
TokenRead3(h) ==
    /\ h \in DOMAIN handlers
    /\ handlers[h].at = "read3"
    /\ pc[handlers[h].w] \in ListenerArmed
    /\ \/ token_response_text' = [token_response_text EXCEPT
              ![handlers[h].w] = Captured(@, handlers[h].body)]
       \/ UNCHANGED token_response_text
    /\ handlers' = [handlers EXCEPT ![h] = Finished]
    /\ UNCHANGED <<mainVars, queueVars, progressVars, workerVars,
                   user_info_response_text, fileVars, ghostVars>>

\* lines 277-287: the read of a user-info body returns or raises
InfoRead(h) ==
    /\ h \in DOMAIN handlers
    /\ handlers[h].at = "read2"
    /\ pc[handlers[h].w] \in ListenerArmed
    /\ \/ user_info_response_text' = [user_info_response_text EXCEPT
              ![handlers[h].w] = Captured(@, handlers[h].body)]
       \/ UNCHANGED user_info_response_text
    /\ handlers' = [handlers EXCEPT ![h] = Finished]
    /\ UNCHANGED <<mainVars, queueVars, progressVars, workerVars,
                   token_response_text, fileVars, ghostVars>>

\* lines 256-304: one listener invocation from its start to its end while
\* no other invocation runs; of the responses that pass the filters, the one
\* that finds its slot empty and whose body read returns fills the slot
HandleResponse(w) ==
    /\ pc[w] \in ListenerArmed
    /\ \E kind \in Kinds, body \in Bodies :
          IF kind = "GetUserToken"
            THEN /\ SlotEmpty(token_response_text[w])
                 /\ token_response_text' = [token_response_text EXCEPT
                        ![w] = Captured(@, body)]
                 /\ UNCHANGED user_info_response_text
            ELSE /\ SlotEmpty(user_info_response_text[w])
                 /\ user_info_response_text' = [user_info_response_text EXCEPT
                        ![w] = Captured(@, body)]
                 /\ UNCHANGED token_response_text
    /\ UNCHANGED <<mainVars, queueVars, progressVars, workerVars, fileVars,
                   ghostVars, handlers>>

\* --------------------------------------- the workflow seen from the batch
\* In the batch specification a workflow is cut at the points where it
\* meets the other workers (the queue, the credential log and its lock, the
\* progress counter and its lock); each stretch in between, which touches
\* only what the workflow owns, is a single step with the outcomes the
\* detailed steps above can produce.

\* lines 420-446: mailbox, browser and signup phase return or raise
SignUpPhase(w) ==
    /\ pc[w] = "mail"
    /\ \/ Aenter(w, "save_account")
       \/ RaiseOpening(w, "Exception")
    /\ UNCHANGED <<mainVars, queueVars, progressVars, index, slotVars,
                   fileVars, ghostVars, handlers>>

\* lines 449-477: settle wait and reload loop; the listener has captured a
\* token body by the end of some attempt, or all attempts are used up, or a
\* wait outside the loop's try block raises.  Every page of a batch is
\* served the same token response; SpecOne varies the bodies.
TokenPhase(w) ==
    /\ pc[w] = "settle"
    /\ \/ \E body \in BatchBodies :
             /\ token_response_text' =
                    [token_response_text EXCEPT ![w] = body]
             /\ Goto(w, "gift")
       \/ /\ pc' = [pc EXCEPT ![w] = "finally"]
          /\ exc' = [exc EXCEPT ![w] = "TokenCaptureError"]
          /\ retry_count' = [retry_count EXCEPT ![w] = max_retries]
          /\ Aexit(w)
          /\ UNCHANGED token_response_text
       \/ /\ Raise(w, "Exception")
          /\ UNCHANGED token_response_text
    /\ UNCHANGED <<mainVars, queueVars, progressVars, index,
                   user_info_response_text, fileVars, ghostVars, handlers>>

\* lines 479-518: gift step, cookies, session record, account record,
\* teardown; the files written are those of the steps that returned before
\* the first one that raised
PersistPhase(w) ==
    /\ pc[w] = "gift"
    /\ \/ /\ Raise(w, "Exception")
          /\ UNCHANGED <<cookies_dir, accounts_dir>>
       \/ /\ Raise(w, "Exception")
          /\ cookies_dir' = cookies_dir \cup {SessionRecord(w)}
          /\ UNCHANGED accounts_dir
       \/ /\ \/ Raise(w, "Exception")
             \/ Return(w)
          /\ cookies_dir' = cookies_dir \cup {SessionRecord(w)}
          /\ accounts_dir' = accounts_dir \cup {AccountRecord(w)}
    /\ UNCHANGED <<mainVars, queueVars, progressVars, index, slotVars,
                   accounts_lock, accounts_file, write_header, ghostVars,
                   handlers>>

\* ------------------------------------------ the verification-code parser
\* Positions named start and end are 1-based indices into a text; position
\* is the 0-based match.start() the source passes around.

\* constants.py 15, parser.py 138: \b\d{length}\b tried at start; the index
\* of the last matched character, 0 when there is no match at start
MatchContinuous(text, start, length) ==
    IF /\ start + length - 1 <= Len(text)
       /\ \A k \in start..(start + length - 1) : IsDigit(text[k])
       /\ Boundary(text, start - 1)
       /\ Boundary(text, start + length - 1)
      THEN start + length - 1
      ELSE 0

\* the end of the whitespace run \s+ that starts at k, 0 when text[k] is
\* not whitespace
RECURSIVE SpaceRunEnd(_, _)
SpaceRunEnd(text, k) ==
    IF k > Len(text) \/ ~IsSpace(text[k]) THEN 0
    ELSE IF k + 1 <= Len(text) /\ IsSpace(text[k + 1])
           THEN SpaceRunEnd(text, k + 1)
           ELSE k

\* constants.py 16-17, parser.py 142-147: the tail (?:\s+\d){count}\b or
\* (?:-\d){count}\b after a digit matched at index at
RECURSIVE GroupsEnd(_, _, _, _)
GroupsEnd(text, at, count, pattern_type) ==
    IF count = 0
      THEN IF Boundary(text, at) THEN at ELSE 0
      ELSE LET sep == IF pattern_type = "spaced"
                        THEN SpaceRunEnd(text, at + 1)
                        ELSE IF at + 1 <= Len(text) /\ text[at + 1] = "-"
                               THEN at + 1 ELSE 0
           IN  IF sep # 0 /\ sep + 1 <= Len(text) /\ IsDigit(text[sep + 1])
                 THEN GroupsEnd(text, sep + 1, count - 1, pattern_type)
                 ELSE 0

\* one compiled pattern tried at start
MatchAt(text, start, length, pattern_type) ==
    IF pattern_type = "continuous"
      THEN MatchContinuous(text, start, length)
      ELSE IF /\ start <= Len(text)
              /\ IsDigit(text[start])
              /\ Boundary(text, start - 1)
             THEN GroupsEnd(text, start, length - 1, pattern_type)
             ELSE 0

\* pattern.finditer(content): the matches from left to right, each at the
\* first index from start on where the pattern matches, the search
\* resuming after the end of each match
RECURSIVE FindIter(_, _, _, _)
FindIter(text, start, length, pattern_type) ==
    LET starts == {s \in start..Len(text) :
                      MatchAt(text, s, length, pattern_type) # 0}
    IN  IF starts = {} THEN <<>>
        ELSE LET first == CHOOSE s \in starts : \A t \in starts : s <= t
                 end == MatchAt(text, first, length, pattern_type)
             IN  <<[start |-> first, end |-> end]>> \o
                     FindIter(text, end + 1, length, pattern_type)

\* (mutant) the separators are kept
Uncompacted(matched) == matched

\* parser.py 109 and 118: re.sub(r'\s+', '', m) and re.sub(r'-', '', m);
\* a continuous match is taken as it is (line 100)
Compact(matched) == SelectSeq(matched, IsDigit)

\* parser.py 201
keywords ==
    << <<"c", "o", "d", "e">>,
       <<"v", "e", "r", "i", "f", "i", "c", "a", "t", "i", "o", "n">>,
       <<"v", "e", "r", "i", "f", "y">>,
       <<"o", "t", "p">>,
       <<"p", "i", "n">>,
       <<"t", "o", "k", "e", "n">> >>

\* parser.py 196-197: characters of context taken before and after position
ContextRadius == 50

\* (mutant) no keyword is looked for
KeywordIgnored(context, position) == FALSE

\* parser.py 196-203
HasKeywordNearby(context, position) ==
    LET start == IF position - ContextRadius > 0
                   THEN position - ContextRadius ELSE 0
        end == Min(Len(context), position + ContextRadius)
        local_context == Lower(Slice(context, start, end))
    IN  \E i \in DOMAIN keywords : Contains(local_context, keywords[i])

\* parser.py 206-210
IsStandalone(code, context, position) ==
    /\ position > 0
    /\ position < Len(context) - Len(code)
    /\ LET before == Slice(context,
                           IF position - 2 > 0 THEN position - 2 ELSE 0,
                           position)
           after == Slice(context, position + Len(code),
                          Min(Len(context), position + Len(code) + 2))
       IN  /\ ("\n" \in Range(before) \/ IsSpaceText(before))
           /\ ("\n" \in Range(after) \/ IsSpaceText(after))

\* parser.py 165-213, in hundredths: the floating-point sums the source
\* can form (0.8, 0.8 + 0.05, 0.8 + 0.1 = 0.9, 0.9 + 0.05 = 0.8 + 0.1 + 0.05,
\* 0.9 + 0.1 = 1.0, and 1.0 for what exceeds it) compare as 80, 85, 90, 95,
\* 100 do
calculate_confidence(code, pattern_type, context, position) ==
    LET base == IF pattern_type = "continuous" THEN 80 ELSE 90
        keyword == IF HasKeywordNearby(context, position) THEN 10 ELSE 0
        standalone == IF IsStandalone(code, context, position)
                        THEN 5 ELSE 0
    IN  Min(base + keyword + standalone, 100)

\* parser.py 99-122: the candidates of one pattern, in match order
CandidatesOf(text, length, pattern_type) ==
    LET matches == FindIter(text, 1, length, pattern_type)
    IN  [m \in DOMAIN matches |->
            LET code == Compact(SubSeq(text, matches[m].start,
                                       matches[m].end))
            IN  [code |-> code,
                 confidence |-> calculate_confidence(code, pattern_type,
                                    text, matches[m].start - 1),
                 pattern_type |-> pattern_type]]

\* (mutant) among equals the one found last comes first
PickLast(cands, best) ==
    CHOOSE i \in DOMAIN cands :
        /\ cands[i].confidence = best
        /\ \A j \in DOMAIN cands :
              cands[j].confidence = best => j <= i

\* parser.py 125: list.sort is stable, also with reverse=True: among the
\* candidates of the highest confidence the one found first comes first
PickFirst(cands, best) ==
    CHOOSE i \in DOMAIN cands :
        /\ cands[i].confidence = best
        /\ \A j \in DOMAIN cands :
              cands[j].confidence = best => i <= j

\* maximum of a non-empty set of numbers
Max(S) == CHOOSE x \in S : \A y \in S : y <= x

\* parser.py 125: candidates.sort(key=confidence, reverse=True)
RECURSIVE SortByConfidence(_)
SortByConfidence(cands) ==
    IF cands = <<>> THEN <<>>
    ELSE LET best == Max({cands[i].confidence :
                              i \in DOMAIN cands})
             i == PickFirst(cands, best)
         IN  <<cands[i]>> \o
                 SortByConfidence(SubSeq(cands, 1, i - 1) \o
                     SubSeq(cands, i + 1, Len(cands)))

\* parser.py 87-127
find_candidates(text, length) ==
    SortByConfidence(CandidatesOf(text, length, "continuous") \o
                     CandidatesOf(text, length, "spaced") \o
                     CandidatesOf(text, length, "dashed"))

\* the index of the first ">" at or after k, 0 when there is none
NextClose(text, k) ==
    LET closes == {j \in k..Len(text) : text[j] = ">"}
    IN  IF closes = {} THEN 0
        ELSE CHOOSE j \in closes : \A i \in closes : j <= i

\* <[^>]+> matches at index k: a "<", at least one character, the next ">"
TagAt(text, k) == text[k] = "<" /\ NextClose(text, k + 1) >= k + 2

\* parser.py 162: re.sub(r'<[^>]+>', ' ', content), from index start on:
\* the text up to the first tag as it is, one space for the tag, and the
\* rest cleaned the same way
RECURSIVE CleanFrom(_, _)
CleanFrom(text, start) ==
    LET opens == {k \in start..Len(text) : TagAt(text, k)}
    IN  IF opens = {} THEN SubSeq(text, start, Len(text))
        ELSE LET open == CHOOSE k \in opens : \A i \in opens : k <= i
             IN  SubSeq(text, start, open - 1) \o <<" ">> \o
                     CleanFrom(text, NextClose(text, open + 1) + 1)

\* (mutant) the text is scanned with its tags
TagsKept(text) == text

\* parser.py 152-163
clean_html(text) == CleanFrom(text, 1)

\* parser.py 63-85
parse(text, length) ==
    LET cands == find_candidates(clean_html(text), length)
    IN  IF cands # <<>> THEN cands[1].code ELSE NoCode


\* ------------------------------------------------- texts given to the parser
\* A text holds one or two blocks.  A block is a digit group of one pattern
\* kind between a lead and a trail; it may be wrapped in <b>...</b> or sit
\* inside a tag as an attribute value.  Two blocks are joined directly or
\* over a filler longer than the context window.

PatternKinds == {"continuous", "spaced", "dashed"}

CodeDigits == <<"1", "2", "3", "4", "5", "6", "7", "8">>
OtherDigits == <<"9", "8", "7", "6", "5", "4", "3", "2">>

YourCodeIs ==
    <<"Y", "o", "u", "r", " ", "c", "o", "d", "e", " ", "i", "s", " ">>

Thanks == <<".", " ", "T", "h", "a", "n", "k", "s">>

Leads ==
    { <<>>, <<" ">>, <<"\n">>, <<"p", "i", "n", " ">>,
      <<"P", "I", "N", "\n">>, <<"x">>, YourCodeIs }

Trails ==
    { <<>>, <<" ">>, <<"\n">>, <<".">>, <<" ", "o", "t", "p">>, <<"x">>,
      Thanks }

\* the whitespace runs between the digits of a spaced code
Repeat(c, n) == [k \in 1..n |-> c]

Separators == {Repeat(c, n) : c \in {" ", "\n"}, n \in 1..MaxSepRun}

\* length digits of a block, joined as its kind joins them
RECURSIVE Joined(_, _, _)
Joined(digits, length, sep) ==
    IF length = 1 THEN <<digits[1]>>
    ELSE Joined(digits, length - 1, sep) \o sep \o <<digits[length]>>

DigitGroup(digits, length, pattern_type, sep) ==
    IF pattern_type = "grouped"
      THEN SubSeq(digits, 1, length \div 2) \o <<"-">> \o
               SubSeq(digits, length \div 2 + 1, length)
      ELSE Joined(digits, length,
                  IF pattern_type = "continuous" THEN <<>>
                  ELSE IF pattern_type = "dashed" THEN <<"-">> ELSE sep)

Wraps == {"plain", "bold", "attribute"}

Wrapped(group, wrap) ==
    IF wrap = "bold"
      THEN <<"<", "b", ">">> \o group \o <<"<", "/", "b", ">">>
    ELSE IF wrap = "attribute"
      THEN <<"<", "p", " ", "i", "d", "=">> \o group \o <<">">>
    ELSE group

BlockText(b, digits, length) ==
    IF b.kind = "none" THEN <<>>
    ELSE b.lead \o
         Wrapped(DigitGroup(digits, length, b.kind, b.sep), b.wrap) \o
         b.trail

\* blocks of all wraps and separators, for the texts with a single block
SingleBlocks ==
    {[kind |-> k, lead |-> l, trail |-> t, sep |-> s, wrap |-> w] :
        k \in PatternKinds \ {"spaced"}, l \in Leads, t \in Trails,
        s \in {<<" ">>}, w \in Wraps}
    \cup
    {[kind |-> "spaced", lead |-> l, trail |-> t, sep |-> s, wrap |-> w] :
        l \in Leads, t \in Trails, s \in Separators, w \in Wraps}

\* plain blocks with single-space separators, for the texts with two blocks
PairLeads ==
    {<<" ">>, <<"\n">>, <<"p", "i", "n", " ">>, <<"P", "I", "N", "\n">>}

PairTrails == {<<" ">>, <<"\n">>, <<".">>, <<" ", "o", "t", "p">>}

PairBlocks ==
    {[kind |-> k, lead |-> l, trail |-> t, sep |-> <<" ">>,
      wrap |-> "plain"] :
        k \in PatternKinds, l \in PairLeads, t \in PairTrails}

Filler == Repeat(".", ContextRadius + 1)

Fillers == {<<>>, Filler}

LayoutText(l, length) ==
    BlockText(l.first, CodeDigits, length) \o l.gap \o
    BlockText(l.second, OtherDigits, length)

\* plain blocks with a keyword some dots away from the digits, on either
\* side of the ends of the context window
Distances == {ContextRadius - 20, ContextRadius - 3, ContextRadius - 2}

DistantLeads ==
    {<<" ">>} \cup {<<"p", "i", "n">> \o Repeat(".", n) : n \in Distances}

DistantTrails ==
    {<<".">>} \cup {Repeat(".", n) \o <<"o", "t", "p">> : n \in Distances}

DistantBlocks ==
    {[kind |-> k, lead |-> l, trail |-> t, sep |-> <<" ">>,
      wrap |-> "plain"] :
        k \in PatternKinds, l \in DistantLeads, t \in DistantTrails}

\* plain blocks whose digits are written in two groups with one dash
\* between them, as in 123-456 (parser.py 46)
GroupedBlocks ==
    {[kind |-> "grouped", lead |-> l, trail |-> t, sep |-> <<" ">>,
      wrap |-> "plain"] :
        l \in {<<>>, <<" ">>, YourCodeIs}, t \in {<<>>, <<" ">>, Thanks}}

Layouts ==
    {[first |-> b, gap |-> <<>>, second |-> NoBlock] : b \in SingleBlocks}
    \cup
    {[first |-> b, gap |-> <<>>, second |-> NoBlock] : b \in GroupedBlocks}
    \cup
    {[first |-> b, gap |-> <<>>, second |-> NoBlock] : b \in DistantBlocks}
    \cup
    {[first |-> a, gap |-> g, second |-> b] :
        a \in PairBlocks, g \in Fillers, b \in PairBlocks}

\* ------------------------------------------------------- the mail client
\* A fetched message: its header fields in order, and the text of its
\* single part, stored unencoded.

\* constants.py 20
SEARCH_HEADERS ==
    << <<"T", "o">>,
       <<"X", "-", "F", "o", "r", "w", "a", "r", "d", "e", "d", "-", "T",
         "o">>,
       <<"D", "e", "l", "i", "v", "e", "r", "e", "d", "-", "T", "o">>,
       <<"C", "c">> >>

ReceivedName == <<"R", "e", "c", "e", "i", "v", "e", "d">>

\* the generated address of the client, the same in capitals as a sender
\* may write it, and the address of somebody else
TargetAddress == <<"a", "1", "@", "x", ".", "i", "o">>
TargetInCapitals == <<"A", "1", "@", "X", ".", "I", "O">>
OtherAddress == <<"b", "2", "@", "x", ".", "i", "o">>

\* email.message.Message.get(name, ''): the value of the first field of
\* that name (names compare case-insensitively), '' when there is none
RECURSIVE HeaderFrom(_, _, _)
HeaderFrom(headers, name, k) ==
    IF k > Len(headers) THEN <<>>
    ELSE IF Lower(headers[k].name) = Lower(name) THEN headers[k].value
    ELSE HeaderFrom(headers, name, k + 1)

GetHeader(msg, name) == HeaderFrom(msg.headers, name, 1)

\* str(msg): every header line, an empty line, the payload
RECURSIVE HeaderLines(_, _)
HeaderLines(headers, k) ==
    IF k > Len(headers) THEN <<>>
    ELSE headers[k].name \o <<":", " ">> \o headers[k].value \o <<"\n">>
             \o HeaderLines(headers, k + 1)

AsString(msg) == HeaderLines(msg.headers, 1) \o <<"\n">> \o msg.body

\* mail_client.py 217-221: the four recipient headers
InSearchHeaders(msg, email_lower) ==
    \E h \in DOMAIN SEARCH_HEADERS :
        LET header_val == GetHeader(msg, SEARCH_HEADERS[h])
        IN  header_val # <<>> /\ Contains(Lower(header_val), email_lower)

\* mail_client.py 201-232
verify_recipient(msg, address) ==
    /\ address # <<>>
    /\ LET email_lower == Lower(address)
       IN  \/ InSearchHeaders(msg, email_lower)
           \/ Contains(Lower(AsString(msg)), email_lower)

\* mail_client.py 171-199: the value of last_verification_code after the
\* message was processed
process_email(msg, address, length, last) ==
    IF ~verify_recipient(msg, address) THEN last
    ELSE LET code == parse(msg.body, length)
         IN  IF code # NoCode THEN code ELSE last

\* the messages a search may return
Field(name, value) == [name |-> name, value |-> value]

FieldChoices(name, values) ==
    {<<>>} \cup {<<Field(name, v)>> : v \in values}

MessageBodies ==
    { <<>>,
      <<"c", "o", "d", "e", " ">> \o DigitGroup(CodeDigits, DEFAULT_CODE_LENGTH,
                                             "continuous", <<>>),
      <<"f", "w", "d", " ">> \o TargetAddress \o <<"\n">>
          \o DigitGroup(OtherDigits, DEFAULT_CODE_LENGTH, "continuous", <<>>),
      <<"f", "w", "d", " ">> \o TargetAddress }

Messages ==
    {[headers |-> to \o xf \o dl \o cc \o rc, body |-> b] :
        to \in FieldChoices(SEARCH_HEADERS[1],
                            {TargetAddress, TargetInCapitals, OtherAddress}),
        xf \in FieldChoices(SEARCH_HEADERS[2], {TargetAddress, OtherAddress}),
        dl \in FieldChoices(SEARCH_HEADERS[3], {TargetAddress}),
        cc \in FieldChoices(SEARCH_HEADERS[4], {TargetAddress, OtherAddress}),
        rc \in FieldChoices(ReceivedName, {TargetAddress, OtherAddress}),
        b \in MessageBodies}

\* ------------------------------------------- the parser and the mail client
\* what the methods of the parser and of the mail client leave alone
BatchFrame ==
    UNCHANGED <<mainVars, queueVars, progressVars, workerVars, slotVars,
                fileVars, handlers, dequeued, started, attempts,
                settingsVars, giftVars>>

\* parser.py 87-127: find_candidates(content)
FindCandidates ==
    /\ "find_candidates" \notin parser_calls
    /\ candidates' = find_candidates(content, code_length)
    /\ parser_calls' = parser_calls \cup {"find_candidates"}
    /\ UNCHANGED <<code_length, layout, content, parsed, mailVars,
                   passwordVars, tokenVars, commandVars, signupVars>>
    /\ BatchFrame

\* parser.py 63-85: parse(content)
Parse ==
    /\ "parse" \notin parser_calls
    /\ parsed' = parse(content, code_length)
    /\ parser_calls' = parser_calls \cup {"parse"}
    /\ UNCHANGED <<code_length, layout, content, candidates, mailVars,
                   passwordVars, tokenVars, commandVars, signupVars>>
    /\ BatchFrame

\* the messages that arrive while the mailbox has room for more than one:
\* every body, addressed to the generated address in the To header
EarlyMessages ==
    {m \in Messages : m.headers = <<Field(SEARCH_HEADERS[1], TargetAddress)>>}

\* a message matching the search arrives and gets the next message id
Deliver ==
    /\ Len(mailbox) < MaxMailbox
    /\ \E m \in (IF Len(mailbox) + 1 < MaxMailbox THEN EarlyMessages
                                                  ELSE Messages) :
          mailbox' = Append(mailbox, m)
    /\ UNCHANGED <<email_address, message, mail_pc, fetched, email_ids,
                   fetched_ids, check_outcome, parserVars, passwordVars,
                   tokenVars, commandVars, signupVars>>
    /\ BatchFrame

\* what the methods of the mail client leave alone when the connection of
\* the client changes
ConnectionFrame ==
    UNCHANGED <<mainVars, queueVars, progressVars, pc, index, retry_count,
                exc, slotVars, fileVars, handlers, dequeued, started,
                attempts, settingsVars, giftVars, parserVars, passwordVars,
                tokenVars, commandVars, signupVars>>

\* mail_client.py 91-117: get_email() generates the address
GetEmail ==
    /\ mail_pc = "idle"
    /\ email_address = <<>>
    /\ email_address' = TargetAddress
    /\ UNCHANGED <<message, mail_pc, fetched, mailbox, email_ids,
                   fetched_ids, check_outcome, connection>>
    /\ ConnectionFrame

\* connection.py 43-58: connect() of the client of worker w returns
Connect(w) ==
    /\ mail_pc = "idle"
    /\ connection[w] = "none"
    /\ connection' = [connection EXCEPT ![w] = "connected"]
    /\ UNCHANGED mailVars
    /\ ConnectionFrame

\* mail_client.py 153-158: close() of the client of worker w
Close(w) ==
    /\ mail_pc = "idle"
    /\ connection[w] = "connected"
    /\ Aexit(w)
    /\ UNCHANGED mailVars
    /\ ConnectionFrame

\* what select_mailbox, search_emails and fetch_email let out: the client's
\* ConnectionError (connection.py 80, 88, 97 and alike) and what imaplib
\* raises beside IMAP4.error, as OSError on a broken socket
CheckExceptions == {"ConnectionError", "OSError"}

\* (mutant) only the client's own errors are caught
ExceptMailClientError(e) ==
    IF e = "ConnectionError" THEN "error" ELSE "raised"

\* mail_client.py 150-151: except Exception; the error is logged and
\* check_emails returns
ExceptException(e) ==
    IF e \in {"ConnectionError", "OSError", "Exception"} THEN "error"
                                                          ELSE "raised"

\* mail_client.py 178-199: the last log line of _process_email
ProcessOutcome(msg, address, length) ==
    IF ~verify_recipient(msg, address) THEN "mismatch"
    ELSE IF parse(msg.body, length) # NoCode THEN "code"
    ELSE "no_code"

\* connection.py 83-92: the ids of the matching messages as the server
\* lists them, in ascending order
search_emails(box) == [i \in 1..Len(box) |-> i]

\* (mutant) the first id of the search result
Oldest(ids) == ids[1]

\* mail_client.py 145: email_ids[-1]
Latest(ids) == ids[Len(ids)]

\* mail_client.py 127-143: without an address check_emails returns at
\* once; select_mailbox raises without a connection (connection.py 146-147);
\* select or search raises; nothing found, the cycle is over
SearchEmails(w) ==
    /\ mail_pc = "idle"
    /\ fetched < MaxMessages
    /\ IF email_address = <<>>
         THEN /\ check_outcome' = "no_address"
              /\ UNCHANGED <<email_ids, fetched_ids, mail_pc>>
         ELSE IF connection[w] = "none"
         THEN /\ check_outcome' = ExceptException("ConnectionError")
              /\ UNCHANGED <<email_ids, fetched_ids, mail_pc>>
         ELSE \/ /\ \E e \in CheckExceptions :
                       check_outcome' = ExceptException(e)
                 /\ UNCHANGED <<email_ids, fetched_ids, mail_pc>>
              \/ /\ email_ids' = search_emails(mailbox)
                 /\ fetched_ids' = {}
                 /\ mail_pc' = IF email_ids' = <<>> THEN "idle" ELSE "found"
                 /\ check_outcome' = IF email_ids' = <<>> THEN "no_emails"
                                                          ELSE "running"
    /\ UNCHANGED <<email_address, message, fetched, mailbox, parserVars,
                   passwordVars, tokenVars, commandVars, signupVars>>
    /\ BatchFrame

\* mail_client.py 145-148, 150-151: the latest message of the search result
\* is fetched, or the fetch raises and the cycle is over
FetchEmail(w) ==
    /\ mail_pc = "found"
    /\ \/ /\ message' = mailbox[Latest(email_ids)]
          /\ fetched_ids' = fetched_ids \cup {Latest(email_ids)}
          /\ fetched' = fetched + 1
          /\ mail_pc' = "fetched"
          /\ UNCHANGED check_outcome
       \/ /\ mail_pc' = "idle"
          /\ \E e \in CheckExceptions : check_outcome' = ExceptException(e)
          /\ UNCHANGED <<message, fetched_ids, fetched>>
    /\ UNCHANGED <<email_address, mailbox, email_ids, parserVars,
                   passwordVars, tokenVars, commandVars, signupVars>>
    /\ BatchFrame

\* mail_client.py 149, 171-199: _process_email(msg)
ProcessEmail(w) ==
    /\ mail_pc = "fetched"
    /\ last_verification_code' = [last_verification_code EXCEPT ![w] =
           process_email(message, email_address, code_length, @)]
    /\ check_outcome' = ProcessOutcome(message, email_address, code_length)
    /\ mail_pc' = "idle"
    /\ UNCHANGED <<email_address, message, fetched, mailbox, email_ids,
                   fetched_ids, parserVars, passwordVars, tokenVars,
                   commandVars, now,
                   deadline, attempt, verification_code, sleeps,
                   poll_entries, page_actions, signup_outcome>>
    /\ BatchFrame

\* ---------------------------------------------------- generate_password
\* register.py 101-103; string.ascii_letters is the lower-case alphabet
\* followed by the upper-case one
letters == LowerLetters \o UpperLetters

digits == <<"0", "1", "2", "3", "4", "5", "6", "7", "8", "9">>

symbols == <<"!", "@", "#", "$", "%", "^", "&", "*">>

\* register.py 113
pool == letters \o digits \o symbols

\* secrets.choice(chars): the draws followed here are the first character
\* of each of the three classes that chars holds
Drawn(chars) ==
    {c \in {letters[1], digits[1], symbols[1]} : c \in Range(chars)}

\* (mutant) the length is used as it was passed
LengthAsGiven(n) == n

\* register.py 104-105
EffectiveLength(n) == IF n < MinPasswordLength THEN MinPasswordLength ELSE n

\* the lists range(n) long over a set of characters
Lists(S, n) == [1..(IF n > 0 THEN n ELSE 0) -> S]

\* x[i], x[j] = x[j], x[i] on 0-based indices
Swapped(x, i, j) ==
    [k \in DOMAIN x |->
        IF k = i + 1 THEN x[j + 1] ELSE IF k = j + 1 THEN x[i + 1] ELSE x[k]]

\* register.py 107-111
ChooseRequired ==
    /\ password_pc = "called"
    /\ \E l \in Drawn(letters), d \in Drawn(digits), y \in Drawn(symbols) :
          required' = <<l, d, y>>
    /\ password_pc' = "required"
    /\ UNCHANGED <<password_length, password_chars, shuffle_i, password>>
    /\ UNCHANGED <<parserVars, mailVars, tokenVars, commandVars,
                   signupVars>>
    /\ BatchFrame

\* register.py 112-114; shuffle then starts at the last index
ChooseRemaining ==
    /\ password_pc = "required"
    /\ LET remaining == EffectiveLength(password_length) - Len(required)
       IN  \E rest \in Lists(Drawn(pool), remaining) :
              /\ password_chars' = required \o rest
              /\ shuffle_i' = Len(required \o rest) - 1
    /\ password_pc' = "shuffle"
    /\ UNCHANGED <<password_length, required, password>>
    /\ UNCHANGED <<parserVars, mailVars, tokenVars, commandVars,
                   signupVars>>
    /\ BatchFrame

\* register.py 115: random.shuffle, for i in reversed(range(1, len(x))):
\* j = randbelow(i + 1); x[i], x[j] = x[j], x[i]
ShuffleStep ==
    /\ password_pc = "shuffle"
    /\ shuffle_i >= 1
    /\ \E j \in 0..shuffle_i :
          password_chars' = Swapped(password_chars, shuffle_i, j)
    /\ shuffle_i' = shuffle_i - 1
    /\ UNCHANGED <<password_length, required, password, password_pc>>
    /\ UNCHANGED <<parserVars, mailVars, tokenVars, commandVars,
                   signupVars>>
    /\ BatchFrame

\* register.py 116
JoinChars ==
    /\ password_pc = "shuffle"
    /\ shuffle_i < 1
    /\ password' = password_chars
    /\ password_pc' = "returned"
    /\ UNCHANGED <<password_length, required, password_chars, shuffle_i>>
    /\ UNCHANGED <<parserVars, mailVars, tokenVars, commandVars,
                   signupVars>>
    /\ BatchFrame

\* ----------------------------------------------- texts given to extract_token
\* A text is built from a shape, a value put where the shape has room for
\* one, and possibly an older JWT put ahead of everything else.

JwtB == <<"e", "y", "J", "x", ".", "y", ".", "z">>

TokenValues ==
    { JwtA, <<" ">> \o JwtA \o <<" ">>, <<"x", " ">> \o JwtA,
      <<"a", "b", "c">>, <<>>, <<" ">> }

\* shapes that are JSON with the value as a string at Result.Token
TokenShapes == {"token", "token_spaced", "token_last"}

\* shapes that are JSON without a string at Result.Token
OtherJsonShapes ==
    {"token_number", "token_null", "token_array", "no_token",
     "result_string", "result_null", "no_result", "lower_case", "array"}

\* shapes that are not JSON
RawShapes == {"raw", "truncated", "form"}

\* shapes whose text does not hold the value
Valueless == {"token_number", "token_null", "result_null"}

TokenLayouts ==
    {[shape |-> s, value |-> v, old |-> o] :
        s \in TokenShapes \cup OtherJsonShapes \cup RawShapes,
        v \in TokenValues, o \in BOOLEAN}

Quoted(v) == <<"\"">> \o v \o <<"\"">>

Member(key, value_text) == Quoted(key) \o <<":">> \o value_text

Braced(inner) == <<"{">> \o inner \o <<"}">>

Twelve == <<"1", "2">>

IdKey == <<"I", "d">>

TokenText(l) ==
    LET v == Quoted(l.value)
        member == IF l.old THEN Member(<<"O", "l", "d">>, Quoted(JwtB))
                                    \o <<",">>
                  ELSE <<>>
        ahead == IF l.old THEN JwtB \o <<" ">> ELSE <<>>
        Result(inner) == Braced(member \o Member(ResultKey, inner))
    IN  CASE l.shape = "token" -> Result(Braced(Member(TokenKey, v)))
          [] l.shape = "token_spaced" ->
                <<"{", " ">> \o member \o Quoted(<<"C", "o", "d", "e">>)
                \o <<" ", ":", " ", "0", " ", ",", "\n", " ">>
                \o Quoted(ResultKey) \o <<" ", ":", " ", "{", " ">>
                \o Member(IdKey, Twelve) \o <<" ", ",", " ">>
                \o Quoted(TokenKey) \o <<" ", ":", " ">> \o v
                \o <<" ", "}", " ", "}", "\n">>
          [] l.shape = "token_last" ->
                Result(Braced(Member(TokenKey, Twelve) \o <<",">>
                              \o Member(TokenKey, v)))
          [] l.shape = "token_number" ->
                Result(Braced(Member(TokenKey, Twelve)))
          [] l.shape = "token_null" ->
                Result(Braced(Member(TokenKey, <<"n", "u", "l", "l">>)))
          [] l.shape = "token_array" ->
                Result(Braced(Member(TokenKey, <<"[">> \o v \o <<"]">>)))
          [] l.shape = "no_token" -> Result(Braced(Member(IdKey, v)))
          [] l.shape = "result_string" -> Result(v)
          [] l.shape = "result_null" -> Result(<<"n", "u", "l", "l">>)
          [] l.shape = "no_result" -> Braced(member \o Member(TokenKey, v))
          [] l.shape = "lower_case" ->
                Braced(member \o
                       Member(Lower(ResultKey),
                              Braced(Member(Lower(TokenKey), v))))
          [] l.shape = "array" ->
                <<"[">> \o (IF l.old THEN Quoted(JwtB) \o <<",">> ELSE <<>>)
                \o v \o <<"]">>
          [] l.shape = "raw" -> ahead \o l.value
          [] l.shape = "truncated" ->
                <<"{">> \o member \o Quoted(ResultKey) \o <<":", "{">>
                \o Member(TokenKey, v)
          [] l.shape = "form" ->
                ahead \o TokenKey \o <<"=">> \o l.value
          [] OTHER -> <<>>

\* the characters of these texts
TokenChars ==
    WordChars \cup {"{", "}", "[", "]", "\"", ":", ",", ".", "=", " ", "\n"}

\* what the calls of extract_token leave alone
TokenFrame ==
    UNCHANGED <<mainVars, queueVars, progressVars, workerVars, slotVars,
                fileVars, handlers, dequeued, started, attempts,
                settingsVars, signupVars, giftVars, parserVars, mailVars,
                passwordVars, commandVars>>

\* lines 123-135: extract_token(token_response_text) returns, or an
\* exception of its try block leaves it
ExtractToken ==
    /\ token_pc = "called"
    /\ IF ExtractRaises(token_text)
         THEN /\ token_pc' = "raised"
              /\ UNCHANGED token_value
         ELSE /\ token_pc' = "returned"
              /\ token_value' = extract_token(token_text)
    /\ UNCHANGED <<token_layout, token_text>>
    /\ TokenFrame

\* ------------------------------------------------ merge_accounts_command
\* register.py 627-675 (merge_accounts.py 13-67 is the same loop; it
\* returns the list where the command returns a code).  The directory holds
\* at most MaxFiles files *.json, named 1..MaxFiles in the order in which
\* sorted() puts their paths.

MaxFiles == 2

FileNames == 1..MaxFiles

\* what a file of the directory holds ("absent": there is no such file)
FileShapes ==
    {"object", "array", "array_mixed", "array_empty", "number", "string",
     "null", "truncated", "blank", "unreadable"}

EmailKey == <<"e", "m", "a", "i", "l">>

\* an account object as text
Account(email) == Braced(Member(EmailKey, Quoted(email)))

\* a letter that tells the files apart
NameChar(n) == <<"a", "b", "c", "d">>[n]

FileText(n, shape) ==
    CASE shape = "object" -> Account(<<NameChar(n)>>)
      [] shape = "array" ->
            <<"[">> \o Account(<<NameChar(n), "1">>) \o <<",", " ">>
            \o Account(<<NameChar(n), "2">>) \o <<"]">>
      [] shape = "array_mixed" ->
            <<"[", "7", ",">> \o Account(<<NameChar(n)>>) \o <<"]", "\n">>
      [] shape = "array_empty" -> <<"[", " ", "]">>
      [] shape = "number" -> Twelve
      [] shape = "string" -> Quoted(<<NameChar(n)>>)
      [] shape = "null" -> <<"n", "u", "l", "l">>
      [] shape = "truncated" -> <<"[">> \o Account(<<NameChar(n)>>)
      [] OTHER -> <<>>

\* line 635: accounts_dir.glob("*.json")
Glob(dir) == {n \in DOMAIN dir : dir[n] # "absent"}

\* (mutant) the files are read in the opposite order
RECURSIVE Unsorted(_)
Unsorted(files) ==
    IF files = {} THEN <<>>
    ELSE Append(Unsorted(files \ {CHOOSE n \in files :
                                      \A m \in files : n <= m}),
                CHOOSE n \in files : \A m \in files : n <= m)

\* line 643: sorted(json_files)
RECURSIVE sorted(_)
sorted(files) ==
    IF files = {} THEN <<>>
    ELSE <<CHOOSE n \in files : \A m \in files : n <= m>>
         \o sorted(files \ {CHOOSE n \in files : \A m \in files : n <= m})

\* lines 645-646: open(json_file) raises, or json.load of its text
Load(n, shape) ==
    IF shape = "unreadable" THEN Malformed ELSE json_loads(FileText(n, shape))

\* line 650: all_accounts.extend(data)
Extend(all, data) ==
    all \o [i \in 1..Len(data.members) |-> data.members[i].value]

\* lines 644-661: one file; what raises is logged and the file skipped
Collected(all, data) ==
    IF ~data.ok THEN all
    ELSE IF data.value.type = "array" THEN Extend(all, data.value)
    ELSE IF data.value.type = "object" THEN Append(all, data.value)
    ELSE all

\* json.dump(value, f, indent=2): the text written for a value that is
\* depth levels deep
Null == <<"n", "u", "l", "l">>

Indent(depth) == Repeat(" ", 2 * depth)

RECURSIVE Dump(_, _)
RECURSIVE DumpItems(_, _, _)

DumpItem(v, i, depth) ==
    Indent(depth)
    \o (IF v.type = "object"
          THEN Quoted(v.members[i].key) \o <<":", " ">> ELSE <<>>)
    \o Dump(v.members[i].value, depth)

DumpItems(v, i, depth) ==
    IF i = Len(v.members) THEN DumpItem(v, i, depth)
    ELSE DumpItem(v, i, depth) \o <<",", "\n">> \o DumpItems(v, i + 1, depth)

Dump(v, depth) ==
    IF v.type = "string" THEN Quoted(v.str)
    ELSE IF v.type = "number" THEN v.str
    ELSE IF v.type = "null" THEN Null
    ELSE IF v.members = <<>>
      THEN (IF v.type = "array" THEN <<"[", "]">> ELSE <<"{", "}">>)
    ELSE (IF v.type = "array" THEN <<"[", "\n">> ELSE <<"{", "\n">>)
         \o DumpItems(v, 1, depth + 1)
         \o <<"\n">> \o Indent(depth)
         \o (IF v.type = "array" THEN <<"]">> ELSE <<"}">>)

\* the list all_accounts as a JSON value
AsArray(all) ==
    JValue("array", <<>>, [i \in 1..Len(all) |-> [key |-> <<>>,
                                                   value |-> all[i]]])

\* lines 665-666
json_dump(all) == Dump(AsArray(all), 0)

\* what the steps of the command leave alone
MergeFrame ==
    UNCHANGED <<mainVars, queueVars, progressVars, workerVars, slotVars,
                fileVars, handlers, dequeued, started, attempts,
                settingsVars, signupVars, giftVars, parserVars, mailVars,
                passwordVars, tokenVars, guiVars>>

\* lines 630-639: no directory, return 1; no file *.json, return 0;
\* otherwise the loop begins
MergeStart ==
    /\ merge_pc = "called"
    /\ IF merge_dir = NoDirectory
         THEN /\ merge_pc' = "return_1"
              /\ UNCHANGED json_files
         ELSE IF Glob(merge_dir) = {}
           THEN /\ merge_pc' = "return_0"
                /\ UNCHANGED json_files
           ELSE /\ merge_pc' = "loop"
                /\ json_files' = sorted(Glob(merge_dir))
    /\ all_accounts' = <<>>
    /\ UNCHANGED <<merge_dir, output_file>>
    /\ MergeFrame

\* lines 643-661: one turn of the loop
MergeRead ==
    /\ merge_pc = "loop"
    /\ json_files # <<>>
    /\ all_accounts' =
           Collected(all_accounts,
                     Load(Head(json_files), merge_dir[Head(json_files)]))
    /\ json_files' = Tail(json_files)
    /\ UNCHANGED <<merge_dir, output_file, merge_pc>>
    /\ MergeFrame

\* lines 663-675: the output is written when there is an account; an
\* exception of the writing is caught by the outer try and gives return 1
MergeWrite ==
    /\ merge_pc = "loop"
    /\ json_files = <<>>
    /\ IF all_accounts # <<>>
         THEN \/ /\ output_file' = json_dump(all_accounts)
                 /\ merge_pc' = "return_0"
              \/ /\ UNCHANGED output_file
                 /\ merge_pc' = "return_1"
         ELSE /\ UNCHANGED output_file
              /\ merge_pc' = "return_0"
    /\ UNCHANGED <<merge_dir, json_files, all_accounts>>
    /\ MergeFrame

\* ---------------------------------------------------------- the gift step
\* TraeRegistrar._claim_gift, one step for each control of the page it
\* awaits

\* line 330: the buttons whose name matches re.compile("claim",
\* re.IGNORECASE), by the text inner_text() reads from the first of them
ButtonTexts ==
    { <<"C", "l", "a", "i", "m">>,
      <<"C", "l", "a", "i", "m", "e", "d">>,
      <<" ", "C", "L", "A", "I", "M", "E", "D", "\n">>,
      <<"c", "l", "a", "i", "m", " ", "n", "o", "w">>,
      <<"\n", "A", "l", "r", "e", "a", "d", "y", " ", "c", "l", "a", "i",
        "m", "e", "d", " ">> }

\* (mutant) the text is compared as it is written
ClaimedAsWritten(text) ==
    Contains(text, <<"c", "l", "a", "i", "m", "e", "d">>)

\* line 336: "claimed" in btn_text.lower()
AlreadyClaimed(text) ==
    Contains(Lower(text), <<"c", "l", "a", "i", "m", "e", "d">>)

\* what the steps of the gift step leave alone
GiftFrame ==
    UNCHANGED <<mainVars, queueVars, progressVars, index, slotVars,
                fileVars, dequeued, started, handlers, attempts,
                settingsVars, pollVars, signup_outcome, libraryVars>>

\* lines 349-352: _claim_gift returns, with or without a warning, and
\* run_one goes on to context.cookies() (line 481)
GiftReturn(w, outcome) ==
    /\ gift_outcome' = [gift_outcome EXCEPT ![w] = outcome]
    /\ Goto(w, "cookies")

\* lines 327-328: page.goto(gift_url), wait_for_load_state
GiftNavigate(w) ==
    /\ pc[w] = "gift"
    /\ \/ Goto(w, "gift_control") /\ UNCHANGED gift_outcome
       \/ GiftReturn(w, "error")
    /\ UNCHANGED <<btn_text, page_actions>>
    /\ GiftFrame

\* lines 330-333: the claim control is looked up
GiftFindControl(w) ==
    /\ pc[w] = "gift_control"
    /\ \/ Goto(w, "gift_text") /\ UNCHANGED gift_outcome
       \/ GiftReturn(w, "no_control")
       \/ GiftReturn(w, "error")
    /\ UNCHANGED <<btn_text, page_actions>>
    /\ GiftFrame

\* lines 335-338: the text of the control is read
GiftReadText(w) ==
    /\ pc[w] = "gift_text"
    /\ \/ \E text \in ButtonTexts :
             /\ btn_text' = [btn_text EXCEPT ![w] = Strip(text)]
             /\ IF AlreadyClaimed(Strip(text))
                  THEN GiftReturn(w, "already_claimed")
                  ELSE Goto(w, "gift_click") /\ UNCHANGED gift_outcome
       \/ GiftReturn(w, "error") /\ UNCHANGED btn_text
    /\ UNCHANGED page_actions
    /\ GiftFrame

\* lines 340-341: the control is clicked
GiftClick(w) ==
    /\ pc[w] = "gift_click"
    /\ \/ /\ page_actions' = [page_actions EXCEPT ![w] = @ \cup {"claim"}]
          /\ Goto(w, "gift_status")
          /\ UNCHANGED gift_outcome
       \/ /\ UNCHANGED page_actions
          /\ GiftReturn(w, "error")
    /\ UNCHANGED btn_text
    /\ GiftFrame

\* lines 342-350: the status is awaited for at most 10 s; whatever is
\* raised in between is caught at line 349
GiftAwaitStatus(w) ==
    /\ pc[w] = "gift_status"
    /\ \/ GiftReturn(w, "claimed")
       \/ GiftReturn(w, "not_updated")
    /\ UNCHANGED <<btn_text, page_actions>>
    /\ GiftFrame

\* lines 324-352, 479: the gift step
ClaimGift(w) ==
    \/ GiftNavigate(w)
    \/ GiftFindControl(w)
    \/ GiftReadText(w)
    \/ GiftClick(w)
    \/ GiftAwaitStatus(w)

\* ------------------------------------------------------ specifications
MainStep ==
    \/ Validate
    \/ BuildQueue
    \/ SpawnWorkers
    \/ Join
    \/ Gather
    \/ FinalCallback

\* the worker loop around a workflow
BoundaryStep(w) ==
    \/ Dequeue(w)
    \/ Finally(w)
    \/ ProgressEnter(w)
    \/ ProgressCallback(w)

\* the credential log, the one file every workflow of a batch writes to
SharedStep(w) ==
    \/ AcquireAccountsLock(w)
    \/ AppendCheck(w)
    \/ AppendAccount(w)

BatchWorkerStep(w) ==
    \/ BoundaryStep(w)
    \/ SharedStep(w)
    \/ SignUpPhase(w)
    \/ TokenPhase(w)
    \/ PersistPhase(w)

WorkflowWorkerStep(w) ==
    \/ BoundaryStep(w)
    \/ SharedStep(w)
    \/ OpenMailbox(w)
    \/ LaunchBrowser(w)
    \/ SignUp(w)
    \/ Settle(w)
    \/ ReloadStart(w)
    \/ ReloadEnd(w)
    \/ TokenCheck(w)
    \/ ClaimGift(w)
    \/ ReadCookies(w)
    \/ SaveSession(w)
    \/ SaveAccountData(w)
    \/ Teardown(w)

ListenerStep ==
    \/ \E w \in Workers : Respond(w)
    \/ \E h \in 1..MaxResponses : TokenRead1(h)
    \/ \E h \in 1..MaxResponses : TokenRead3(h)
    \/ \E h \in 1..MaxResponses : InfoRead(h)

\* A batch of up to MaxTotal workflows on up to MaxConc workers
Next ==
    \/ MainStep
    \/ \E w \in Workers : BatchWorkerStep(w)

Spec == Init /\ [][Next]_vars

\* The same batch when it does not stop while some task can take a step:
\* the event loop runs every ready task, and every awaited operation of a
\* workflow returns or raises
FairSpec ==
    /\ Init
    /\ [][Next]_vars
    /\ WF_vars(Next)

\* One workflow in full, run_batch(1, 1, settings, cb), with the listener
\* invocations of its page interleaved with it
InitOne ==
    /\ total = 1
    /\ requested = 1
    /\ progress_cb \in BOOLEAN
    /\ OneSetting
    /\ LibraryIdle
    /\ InitCommon

NextOne ==
    \/ MainStep
    \/ \E w \in Workers : WorkflowWorkerStep(w)
    \/ ListenerStep

SpecOne == InitOne /\ [][NextOne]_vars

\* One workflow with its signup phase step by step, for every explored
\* setting of the poll loop; the phases after the credential-log append are
\* the single steps of the batch
InitSignUp ==
    /\ total = 1
    /\ requested = 1
    /\ progress_cb \in BOOLEAN
    /\ email_wait_timeout_s \in 0..MaxTimeout
    /\ email_poll_interval_s \in 1..MaxPollInterval
    /\ LibraryIdle
    /\ InitCommon

SignUpStep(w) ==
    \/ RequestCode(w)
    \/ PollEnter(w)
    \/ PollCheck(w)
    \/ PollExpire(w)
    \/ CheckEmails(w)
    \/ PollSleep(w)
    \/ CodeCheck(w)
    \/ EnterCode(w)
    \/ Submit(w)
    \/ AwaitRedirect(w)

NextSignUp ==
    \/ MainStep
    \/ \E w \in Workers :
          \/ BoundaryStep(w)
          \/ SharedStep(w)
          \/ OpenMailbox(w)
          \/ LaunchBrowser(w)
          \/ SignUpStep(w)
          \/ TokenPhase(w)
          \/ PersistPhase(w)

SpecSignUp == InitSignUp /\ [][NextSignUp]_vars

\* One workflow with every phase step by step: the signup phase and the
\* poll loop, the token wait, the gift step and the two records, with the
\* listener invocations of its page running one at a time
WorkflowStep(w) ==
    \/ BoundaryStep(w)
    \/ SharedStep(w)
    \/ OpenMailbox(w)
    \/ LaunchBrowser(w)
    \/ SignUpStep(w)
    \/ Settle(w)
    \/ ReloadStart(w)
    \/ ReloadEnd(w)
    \/ TokenCheck(w)
    \/ ClaimGift(w)
    \/ ReadCookies(w)
    \/ SaveSession(w)
    \/ SaveAccountData(w)
    \/ Teardown(w)

NextWorkflow ==
    \/ MainStep
    \/ \E w \in Workers : WorkflowStep(w)
    \/ \E w \in Workers : HandleResponse(w)

SpecWorkflow == InitOne /\ [][NextWorkflow]_vars

\* the same when the event loop keeps running what is ready
FairSpecSignUp ==
    /\ InitSignUp
    /\ [][NextSignUp]_vars
    /\ WF_vars(NextSignUp)

\* No batch has been started
BatchIdle ==
    /\ total = 1
    /\ requested = 1
    /\ progress_cb = FALSE
    /\ OneSetting
    /\ InitCommon

\* The parser alone: one parser of every supported code length on every
\* single-block text, and the parser of the default length on every
\* two-block text
InitParser ==
    /\ BatchIdle
    /\ MailIdle
    /\ PasswordIdle
    /\ TokenIdle
    /\ CommandIdle
    /\ layout \in Layouts
    /\ code_length \in MIN_CODE_LENGTH..MAX_CODE_LENGTH
    /\ layout.second.kind # "none" => code_length = DEFAULT_CODE_LENGTH
    /\ content = LayoutText(layout, code_length)
    /\ candidates = <<>>
    /\ parsed = NoCode
    /\ parser_calls = {}

NextParser ==
    \/ FindCandidates
    \/ Parse

SpecParser == InitParser /\ [][NextParser]_vars

\* The mail client alone, with the parser of the default code length
InitMail ==
    /\ BatchIdle
    /\ ParserIdle
    /\ PasswordIdle
    /\ TokenIdle
    /\ CommandIdle
    /\ MailIdle

NextMail ==
    \/ GetEmail
    \/ Connect(1)
    \/ Close(1)
    \/ Deliver
    \/ SearchEmails(1)
    \/ FetchEmail(1)
    \/ ProcessEmail(1)

SpecMail == InitMail /\ [][NextMail]_vars

\* extract_token alone, called with every text of the model
InitToken ==
    /\ BatchIdle
    /\ ParserIdle
    /\ MailIdle
    /\ PasswordIdle
    /\ CommandIdle
    /\ token_layout \in TokenLayouts
    /\ token_text = TokenText(token_layout)
    /\ token_value = NoToken
    /\ token_pc = "called"

NextToken == ExtractToken

SpecToken == InitToken /\ [][NextToken]_vars

\* an output file an earlier merge has left
StaleOutput == <<"[", "\n", " ", " ">> \o Account(<<"z">>) \o <<"\n", "]">>

\* merge_accounts_command alone, on every directory of the model
InitMerge ==
    /\ BatchIdle
    /\ ParserIdle
    /\ MailIdle
    /\ PasswordIdle
    /\ TokenIdle
    /\ merge_dir \in {NoDirectory}
                     \cup [FileNames -> FileShapes \cup {"absent"}]
    /\ json_files = <<>>
    /\ all_accounts = <<>>
    /\ output_file \in {NoOutput, StaleOutput}
    /\ merge_pc = "called"
    /\ GuiIdle

NextMerge ==
    \/ MergeStart
    \/ MergeRead
    \/ MergeWrite

SpecMerge == InitMerge /\ [][NextMerge]_vars

\* ------------------------------------------------------------ the window
\* gui.py: the button handlers run in the Tk main thread, one at a time;
\* each task runs in a thread of its own

\* The number of tasks followed
MaxTasks == 3

Targets == {"run_one", "run_batch", "install_browsers", "merge_accounts"}

\* what the handlers and the task threads leave alone
GuiFrame ==
    UNCHANGED <<mainVars, queueVars, progressVars, workerVars, slotVars,
                fileVars, handlers, dequeued, started, attempts,
                settingsVars, signupVars, giftVars, parserVars, mailVars,
                passwordVars, tokenVars, mergeVars>>

\* (mutant) the handler does not look at the flag
NeverBusy(flag) == FALSE

\* gui.py 486, 502, 520, 535: if self.running: return
Busy(flag) == flag

\* the threads whose wrapper has not reached the end of its finally block
Live == {t \in DOMAIN threads : threads[t].state # "ended"}

\* gui.py 447-463, 469-483: _set_running(True); _run_thread(task) starts a
\* daemon thread on wrapper, which calls the task
StartThread(target) ==
    /\ Len(threads) < MaxTasks
    /\ running' = TRUE
    /\ threads' = Append(threads, [target |-> target, state |-> "target",
                                   outcome |-> "running"])
    /\ last_click' = "started"

\* the handler returns at its first statement
Ignored ==
    /\ last_click' = "ignored"
    /\ UNCHANGED <<running, threads>>

\* gui.py 485-499: Register One
RunOne ==
    /\ gui_pc = "idle"
    /\ IF Busy(running) THEN Ignored ELSE StartThread("run_one")
    /\ UNCHANGED <<gui_pc, after_queue>>
    /\ GuiFrame

\* gui.py 501-517: Batch Register; int() of a field that holds no number
\* raises ValueError out of the handler (lines 504-505), before the flag
\* is set and before a thread is made
RunBatch ==
    /\ gui_pc = "idle"
    /\ IF Busy(running) THEN Ignored
       ELSE \/ StartThread("run_batch")
            \/ /\ last_click' = "ValueError"
               /\ UNCHANGED <<running, threads>>
    /\ UNCHANGED <<gui_pc, after_queue>>
    /\ GuiFrame

\* gui.py 519-532: Install Browsers
InstallBrowsers ==
    /\ gui_pc = "idle"
    /\ IF Busy(running) THEN Ignored ELSE StartThread("install_browsers")
    /\ UNCHANGED <<gui_pc, after_queue>>
    /\ GuiFrame

\* gui.py 534-538: Merge Accounts, up to the save-file dialog; the dialog
\* is modal, the buttons of the window take no click while it is open
MergeAccounts ==
    /\ gui_pc = "idle"
    /\ IF Busy(running)
         THEN /\ Ignored
              /\ UNCHANGED gui_pc
         ELSE /\ gui_pc' = "dialog"
              /\ last_click' = "dialog"
              /\ UNCHANGED <<running, threads>>
    /\ UNCHANGED after_queue
    /\ GuiFrame

\* gui.py 538-548: the dialog returns no path and the handler returns, or
\* it returns a path and the merge task is started
DialogReturn ==
    /\ gui_pc = "dialog"
    /\ gui_pc' = "idle"
    /\ \/ /\ last_click' = "cancelled"
          /\ UNCHANGED <<running, threads>>
       \/ StartThread("merge_accounts")
    /\ UNCHANGED after_queue
    /\ GuiFrame

\* (mutant) the reset is scheduled after a task that returned
ScheduledOnReturn(outcome) == IF outcome = "returned" THEN 1 ELSE 0

\* gui.py 470-481: try: target() finally: self.after(0, reset)
Scheduled(outcome) == 1

\* The call inside the task of thread t ends.  It returns, or raises an
\* Exception, which the task catches (lines 497-498 and alike) and shows
\* in a message box, or raises something that is no Exception, which
\* leaves the task; in the two cases without a message box the finally
\* block of wrapper follows at once
TargetEnds(t) ==
    /\ t \in DOMAIN threads
    /\ threads[t].state = "target"
    /\ \E outcome \in {"returned", "Exception", "BaseException"} :
          /\ threads' = [threads EXCEPT ![t] =
                 [@ EXCEPT !.outcome = outcome,
                           !.state = IF outcome = "Exception"
                                       THEN "showerror" ELSE "ended"]]
          /\ after_queue' = IF outcome = "Exception" THEN after_queue
                            ELSE after_queue + Scheduled(outcome)
    /\ UNCHANGED <<running, gui_pc, last_click>>
    /\ GuiFrame

\* messagebox.showerror returns or raises in the thread; the finally block
\* of wrapper follows
ErrorShown(t) ==
    /\ t \in DOMAIN threads
    /\ threads[t].state = "showerror"
    /\ threads' = [threads EXCEPT ![t] = [@ EXCEPT !.state = "ended"]]
    /\ after_queue' = after_queue + Scheduled(threads[t].outcome)
    /\ UNCHANGED <<running, gui_pc, last_click>>
    /\ GuiFrame

\* gui.py 474-480: reset() runs in the main loop, also in the loop of the
\* dialog: _set_running(False)
Reset ==
    /\ after_queue > 0
    /\ after_queue' = after_queue - 1
    /\ running' = FALSE
    /\ UNCHANGED <<gui_pc, threads, last_click>>
    /\ GuiFrame

\* The window alone
InitGui ==
    /\ BatchIdle
    /\ LibraryIdle

NextGui ==
    \/ RunOne
    \/ RunBatch
    \/ InstallBrowsers
    \/ MergeAccounts
    \/ DialogReturn
    \/ \E t \in 1..MaxTasks : TargetEnds(t)
    \/ \E t \in 1..MaxTasks : ErrorShown(t)
    \/ Reset

SpecGui == InitGui /\ [][NextGui]_vars

\* generate_password alone, called with every length up to MaxPasswordLength
InitPassword ==
    /\ BatchIdle
    /\ ParserIdle
    /\ MailIdle
    /\ TokenIdle
    /\ CommandIdle
    /\ password_length \in (-1)..MaxPasswordLength
    /\ required = <<>>
    /\ password_chars = <<>>
    /\ shuffle_i = 0
    /\ password = <<>>
    /\ password_pc = "called"

NextPassword ==
    \/ ChooseRequired
    \/ ChooseRemaining
    \/ ShuffleStep
    \/ JoinChars

SpecPassword == InitPassword /\ [][NextPassword]_vars

TypeOK ==
    /\ total \in (-1)..MaxTotal
    /\ requested \in (-1)..MaxConc
    /\ concurrency \in (-1)..MaxConc
    /\ progress_cb \in BOOLEAN
    /\ main_pc \in {"validate", "ValueError", "build", "spawn", "join",
                    "gather", "final_cb", "returned", "raised"}
    /\ queue \in Seq(0..MaxTotal)
    /\ unfinished_tasks \in 0..(MaxTotal + MaxConc)
    /\ tasks \subseteq Workers
    /\ completed \in 0..MaxTotal
    /\ progress_lock \in {0} \cup Workers
    /\ accounts_lock \in {0} \cup Workers
    /\ write_header \in [Workers -> {"none", "yes", "no"}]
    /\ index \in [Workers -> 0..MaxTotal]
    /\ retry_count \in [Workers -> 0..max_retries]
    /\ connection \in [Workers -> {"none", "connected"}]
    /\ token_response_text \in [Workers -> Bodies \cup {NoText}]
    /\ user_info_response_text \in [Workers -> Bodies \cup {NoText}]
    /\ exc \in [Workers -> {"none", "Exception", "SignupError",
                            "TokenCaptureError", "VerificationTimeout",
                            "RegistrationRejected"}]
    /\ now \in 0..MaxClock
    /\ email_wait_timeout_s \in 0..MaxTimeout
    /\ email_poll_interval_s \in 1..MaxPollInterval
    /\ deadline \in [Workers -> 0..MaxClock]
    /\ attempt \in [Workers -> 0..MaxClock]
    /\ sleeps \in [Workers -> 0..MaxClock]
    /\ poll_entries \in [Workers -> 0..1]
    /\ \A w \in Workers :
          /\ Range(last_verification_code[w]) \subseteq DigitChars
          /\ Range(verification_code[w]) \subseteq DigitChars
    /\ code_length \in MIN_CODE_LENGTH..MAX_CODE_LENGTH
    /\ Range(parsed) \subseteq DigitChars
    /\ \A i \in DOMAIN candidates :
          /\ Len(candidates[i].code) = code_length
          /\ candidates[i].confidence \in {80, 85, 90, 95, 100}
          /\ candidates[i].pattern_type \in PatternKinds
    /\ parser_calls \subseteq {"find_candidates", "parse"}
    /\ mail_pc \in {"idle", "found", "fetched"}
    /\ check_outcome \in {"none", "no_address", "error", "no_emails",
                          "running", "mismatch", "no_code", "code",
                          "raised"}
    /\ mailbox \in Seq(Messages)
    /\ Len(mailbox) <= MaxMailbox
    /\ email_ids \in Seq(1..MaxMailbox)
    /\ fetched_ids \subseteq 1..MaxMailbox
    /\ password_length \in (-1)..MaxPasswordLength
    /\ required \in Seq(Range(pool))
    /\ password_chars \in Seq(Range(pool))
    /\ shuffle_i \in 0..MaxPasswordLength
    /\ password \in Seq(Range(pool))
    /\ password_pc \in {"idle", "called", "required", "shuffle", "returned"}
    /\ token_layout \in TokenLayouts \cup {NoTokenLayout}
    /\ token_text \in Seq(TokenChars)
    /\ token_value \in Seq(TokenChars)
    /\ token_pc \in {"idle", "called", "returned", "raised"}
    /\ merge_dir \in {NoDirectory}
                     \cup [FileNames -> FileShapes \cup {"absent"}]
    /\ json_files \in Seq(FileNames)
    /\ \A i \in DOMAIN all_accounts :
          all_accounts[i].type \in {"object", "number"}
    /\ output_file \in Seq(TokenChars)
    /\ merge_pc \in {"idle", "called", "loop", "return_0", "return_1"}
    /\ running \in BOOLEAN
    /\ gui_pc \in {"idle", "dialog"}
    /\ threads \in Seq([target : Targets,
                        state : {"target", "showerror", "ended"},
                        outcome : {"running", "returned", "Exception",
                                   "BaseException"}])
    /\ Len(threads) <= MaxTasks
    /\ after_queue \in 0..MaxTasks
    /\ last_click \in {"none", "started", "ignored", "ValueError", "dialog",
                       "cancelled"}
    /\ fetched \in 0..MaxMessages
    /\ \A w \in Workers :
          page_actions[w] \subseteq
              {"email", "send_code", "code", "password", "submit", "claim"}
    /\ \A w \in Workers :
          btn_text[w] \in {<<>>} \cup {Strip(t) : t \in ButtonTexts}
    /\ gift_outcome \in [Workers -> {"none", "error", "no_control",
                            "already_claimed", "claimed", "not_updated"}]
    /\ signup_outcome \in [Workers -> {"none", "no_code", "redirected",
                              "rejected", "timeout_on_signup",
                              "timeout_redirected"}]
    /\ accounts_file \in Seq(0..MaxTotal)
    /\ cb_log \in Seq(0..MaxTotal)
    /\ cb_raised \in BOOLEAN
    /\ Len(handlers) <= MaxResponses
    /\ \A w \in Workers :
          /\ Len(attempts[w]) <= max_retries
          /\ Range(attempts[w]) \subseteq {"pending", "returned", "raised"}

\* ------------------------------------------------------------ helpers
ValidArguments == total >= 1 /\ requested >= 1

NonDecreasing(log) ==
    \A i \in 1..(Len(log) - 1) : log[i] <= log[i + 1]

\* positions of a worker inside TraeRegistrar.run_one
InWorkflow ==
    {"mail", "launch", "signup", "save_account", "appending", "settle",
     "token_loop", "reloading", "gift", "gift_control", "gift_text",
     "gift_click", "gift_status", "cookies", "save_session",
     "save_account_data", "teardown"}

\* ---------------------------------------------------------------- claims

\* C1: with valid arguments and whichever workflows raise, the done values
\* passed to the progress callback never decrease, the last invocation of a
\* returned batch is (total, total), and the batch does return.
C1_DoneValuesSafe ==
    /\ NonDecreasing(cb_log)
    /\ (main_pc = "returned" /\ progress_cb) =>
           (cb_log # <<>> /\ cb_log[Len(cb_log)] = total)

C1_ProgressMonotoneAndBatchCompletes ==
    /\ []C1_DoneValuesSafe
    /\ (ValidArguments ~> main_pc = "returned")

\* a batch of MaxTotal workflows of which at least one raised has returned
\* after its final callback
C1_Witness ==
    /\ main_pc = "returned"
    /\ progress_cb
    /\ total = MaxTotal
    /\ Cardinality(accounts_dir) < total
    /\ cb_log[Len(cb_log)] = total
    /\ Len(cb_log) = total + 1

\* C2: the completed counter never exceeds total; every index of 1..total
\* is handed out by queue.get exactly once and has exactly one run_one
\* started for it: it is on the queue and untouched, or off the queue and
\* dequeued once, never skipped, never twice.
C2_EachIndexExactlyOnce ==
    main_pc \notin {"validate", "ValueError", "build"} =>
        /\ completed <= total
        /\ \A i \in Indices :
              /\ dequeued[i] <= 1
              /\ started[i] = dequeued[i]
              /\ (dequeued[i] = 1) <=> (i <= total /\ i \notin Range(queue))
        /\ main_pc = "returned" =>
               \A i \in 1..total : dequeued[i] = 1 /\ started[i] = 1

\* MaxConc workers have shared MaxTotal indices and the batch has returned
C2_Witness ==
    /\ main_pc = "returned"
    /\ total = MaxTotal
    /\ concurrency = MaxConc
    /\ completed = total
    /\ \A i \in 1..total : dequeued[i] = 1 /\ started[i] = 1

\* C3: the queue is built as 1..total followed by min(concurrency, total)
\* sentinels; each worker takes exactly one sentinel and then ends;
\* task_done is called once per dequeued item; and when every step that can
\* be taken is taken, join and gather complete and run_batch returns.
SentinelsQueued == Cardinality({k \in DOMAIN queue : queue[k] = None})

SentinelsTaken ==
    Cardinality({w \in tasks :
        \/ pc[w] = "exited"
        \/ pc[w] = "finally" /\ index[w] = None})

HoldingItem ==
    Cardinality({w \in tasks : pc[w] \in InWorkflow \cup {"finally"}})

C3_QueueSafe ==
    /\ main_pc = "spawn" =>
           queue = [i \in 1..(total + Min(requested, total)) |->
                        IF i <= total THEN i ELSE None]
    /\ main_pc \in {"join", "gather", "final_cb", "returned"} =>
           /\ SentinelsQueued + SentinelsTaken = Min(requested, total)
           /\ Cardinality(tasks) = Min(requested, total)
           /\ unfinished_tasks = Len(queue) + HoldingItem
    /\ main_pc \in {"final_cb", "returned"} =>
           /\ queue = <<>>
           /\ unfinished_tasks = 0
           /\ \A w \in tasks : pc[w] = "exited"

C3_SentinelShutdownAndReturn ==
    /\ []C3_QueueSafe
    /\ [][\A w \in Workers : pc[w] = "exited" => pc'[w] = "exited"]_vars
    /\ (ValidArguments ~>
           (main_pc = "returned" /\ \A w \in tasks : pc[w] = "exited"))

\* every worker of a full pool has taken its sentinel and ended, and the
\* batch has returned
C3_Witness ==
    /\ main_pc = "returned"
    /\ Cardinality(tasks) = MaxConc
    /\ SentinelsTaken = MaxConc
    /\ queue = <<>>
    /\ unfinished_tasks = 0

\* C4: an exception raised by a workflow is caught at the worker boundary:
\* the step that raises changes nothing of the other workers, the worker
\* leaves its finally block with the exception dropped and returns to
\* queue.get after the progress update, no task ever ends with an
\* exception, and run_batch never raises past validation.
C4_NoCrash ==
    /\ \A w \in Workers : pc[w] # "crashed"
    /\ main_pc # "raised"
    /\ \A w \in Workers : pc[w] \in {"progress", "callback"} =>
           exc[w] = "none"

C4_RaiseStep ==
    \A w \in Workers :
        /\ (exc[w] = "none" /\ exc'[w] # "none") =>
               \A v \in Workers \ {w} :
                   pc'[v] = pc[v] /\ index'[v] = index[v] /\
                   exc'[v] = exc[v]
        /\ (pc[w] = "finally" /\ exc[w] # "none" /\ pc'[w] # "finally") =>
               pc'[w] = "progress" /\ exc'[w] = "none"
        /\ (pc[w] = "callback" /\ pc'[w] # "callback") => pc'[w] = "get"

C4_ExceptionCaughtAtWorkerBoundary ==
    []C4_NoCrash /\ [][C4_RaiseStep]_vars

\* with a single worker the workflow of index 1 raised before anything was
\* written, the same worker then completed index 2, and the batch
\* returned
C4_Witness ==
    /\ main_pc = "returned"
    /\ total = 2
    /\ requested = 1
    /\ {r.email : r \in accounts_dir} = {2}
    /\ accounts_file = <<Header, 2>>

\* C5: with a non-positive total or concurrency run_batch ends with the
\* validation error and nothing has happened: no queue, no task, no
\* workflow, no callback; and run_batch raises for no other reason.
C5_FailFastValidation ==
    /\ ~ValidArguments =>
           /\ main_pc \in {"validate", "ValueError"}
           /\ queue = <<>>
           /\ unfinished_tasks = 0
           /\ tasks = {}
           /\ \A w \in Workers : pc[w] = "unborn"
           /\ \A i \in Indices : started[i] = 0 /\ dequeued[i] = 0
           /\ cb_log = <<>>
           /\ completed = 0
    /\ main_pc = "ValueError" => ~ValidArguments
    /\ main_pc # "raised"

\* a positive total with a non-positive concurrency has been rejected
C5_Witness ==
    /\ main_pc = "ValueError"
    /\ total >= 1
    /\ requested <= 0

\* C6: exactly min(concurrency, total) workers are spawned and never more
\* than that many workflows are in progress at once.
InProgress == Cardinality({w \in Workers : pc[w] \in InWorkflow})

C6_PoolSize ==
    /\ main_pc \in {"join", "gather", "final_cb", "returned"} =>
           tasks = 1..Min(requested, total)
    /\ main_pc \in {"validate", "ValueError", "build", "spawn"} =>
           tasks = {}
    /\ InProgress <= Cardinality(tasks)
    /\ ValidArguments => InProgress <= Min(requested, total)

\* more workers were requested than there are indices, and as many
\* workflows as there are indices are in progress
C6_Witness ==
    /\ requested > total
    /\ total = MaxConc - 1
    /\ main_pc = "join"
    /\ InProgress = total
    /\ Cardinality(tasks) = total

\* C7: a raising progress callback changes nothing: the counter was
\* incremented before the call, every increment is followed by exactly one
\* invocation, the worker returns to queue.get, every index is still
\* processed, no task ends with an exception and the batch returns.
PerIndexInvocations ==
    IF main_pc = "returned" THEN Len(cb_log) - 1 ELSE Len(cb_log)

C7_RaiseSwallowed ==
    cb_raised =>
        /\ \A w \in Workers : pc[w] # "crashed"
        /\ main_pc # "raised"
        /\ PerIndexInvocations =
               completed - Cardinality({w \in Workers : pc[w] = "callback"})
        /\ main_pc = "returned" =>
               /\ completed = total
               /\ \A i \in 1..total : started[i] = 1

C7_CallbackExceptionsSwallowed ==
    /\ []C7_RaiseSwallowed
    /\ ((ValidArguments /\ cb_raised) ~> main_pc = "returned")

\* the callback of index 1 raised (the final callback has not been issued
\* yet) and the same, only worker is running the workflow of index 2
C7_Witness ==
    /\ cb_raised
    /\ main_pc = "join"
    /\ requested = 1
    /\ completed = 1
    /\ pc[1] = "settle"
    /\ index[1] = 2

\* C8: at most one worker is inside the credential-log append at a time,
\* and it is the holder of accounts_lock.
C8_AppendsMutuallyExclusive ==
    /\ Cardinality({w \in Workers : pc[w] = "appending"}) <= 1
    /\ \A w \in Workers : pc[w] = "appending" => accounts_lock = w

\* one worker is appending while another waits for the lock
C8_Witness ==
    \E w, v \in Workers :
        /\ pc[w] = "appending"
        /\ pc[v] = "save_account"
        /\ accounts_lock = w

\* C9 (as claimed): a workflow that ends in token-capture failure has
\* persisted nothing: no credential-log line, no session file, no account
\* file.
LoggedEmails == Range(accounts_file) \ {Header}

C10_FirstCaptureWins ==
    [][\A w \in Workers :
          (pc[w] \in ListenerArmed /\ pc'[w] \in ListenerArmed) =>
              /\ token_response_text[w] # NoText =>
                     token_response_text'[w] = token_response_text[w]
              /\ user_info_response_text[w] # NoText =>
                     user_info_response_text'[w] =
                         user_info_response_text[w]]_vars

\* C11: after the settle wait a workflow reloads the page at most
\* max_retries = 3 times: a reload starts only while the token slot is empty
\* and fewer than 3 attempts were made, every started reload counts as one
\* attempt whether it returns or raises, and the workflow ends in
\* token-capture failure only after 3 attempts with the slot still empty.
C11_ReloadsBounded ==
    \A w \in Workers :
        /\ Len(attempts[w]) <= max_retries
        /\ pc[w] \in {"token_loop", "reloading"} =>
               retry_count[w] = Len(attempts[w])
        /\ pc[w] = "reloading" => attempts[w][Len(attempts[w])] = "pending"
        /\ exc[w] = "TokenCaptureError" =>
               /\ Len(attempts[w]) = max_retries
               /\ token_response_text[w] = NoText
        /\ pc[w] \in {"gift", "cookies", "save_session",
                      "save_account_data", "teardown"} =>
               token_response_text[w] # NoText

C11_ReloadStep ==
    \A w \in Workers :
        /\ Len(attempts'[w]) > Len(attempts[w]) =>
               /\ token_response_text[w] = NoText
               /\ Len(attempts[w]) < max_retries
               /\ Len(attempts'[w]) = Len(attempts[w]) + 1
               /\ retry_count'[w] = retry_count[w] + 1
        /\ (pc[w] = "reloading" /\ pc'[w] # "reloading") =>
               /\ pc'[w] = "token_loop"
               /\ retry_count'[w] = retry_count[w]
        /\ (pc[w] = "token_loop" /\ pc'[w] = "finally") =>
               /\ retry_count[w] = max_retries
               /\ exc'[w] = "TokenCaptureError"

C11_AtMostThreeReloads ==
    []C11_ReloadsBounded /\ [][C11_ReloadStep]_vars

\* the first reload raised, the token was captured during the second, and
\* the workflow went on without a third
C11_Witness ==
    /\ pc[1] = "gift"
    /\ attempts[1] = <<"raised", "returned">>
    /\ token_response_text[1] # NoText

\* C12 (as claimed): when the navigation timeout expires with the page
\* still on the signup path, the signup phase fails (with the inline error
\* text when an inline error element is there, as a registration timeout
\* otherwise) and the workflow reaches neither the credential-log append
\* nor token capture nor persistence.
C12_StillOnSignupFails ==
    \A w \in Workers :
        signup_outcome[w] \in {"rejected", "timeout_on_signup"} =>
            /\ pc[w] \notin {"save_account", "appending", "settle", "gift"}
            /\ LoggedEmails = {}
            /\ cookies_dir = {}
            /\ accounts_dir = {}

\* C13: a poll loop that returns no code ends the workflow: the loop was
\* entered once, the code and password fields were not filled, nothing was
\* submitted, nothing was written, and the worker goes on to the next
\* queue item without putting the index back or starting it again.
NoCodeArrived(w) ==
    /\ poll_entries[w] = 1
    /\ verification_code[w] = NoCode
    /\ pc[w] \notin {"poll_enter", "poll_head", "checking", "sleeping",
                     "poll_returned"}

C13_NoCodeEndsWorkflow ==
    \A w \in Workers :
        /\ poll_entries[w] <= 1
        /\ signup_outcome[w] = "no_code" => NoCodeArrived(w)
        /\ NoCodeArrived(w) =>
               /\ signup_outcome[w] = "no_code"
               /\ page_actions[w] = {"email", "send_code"}
               /\ pc[w] \in {"finally", "progress", "callback", "get",
                             "exited"}
               /\ (pc[w] = "finally" /\ index[w] # None) =>
                      exc[w] = "VerificationTimeout"
               /\ \A i \in Indices :
                      started[i] <= 1 /\ dequeued[i] <= 1
               /\ Range(queue) \subseteq {None}
               /\ LoggedEmails = {}
               /\ cookies_dir = {}
               /\ accounts_dir = {}

C13_NeverRequeued ==
    main_pc \notin {"validate", "build"} =>
        (queue' = queue \/ queue' = Tail(queue))

C13_VerificationTimeoutIsTerminal ==
    []C13_NoCodeEndsWorkflow /\ [][C13_NeverRequeued]_vars

\* the deadline passed after at least two mailbox checks without a code,
\* and the worker has since taken its sentinel and ended
C13_Witness ==
    /\ NoCodeArrived(1)
    /\ attempt[1] >= 2
    /\ pc[1] = "exited"
    /\ started[1] = 1

\* C14: the poll loop computes its deadline once, at entry; it starts a
\* mailbox check only before the deadline; a check that leaves a code
\* available is followed by the return of that code, with no sleep and no
\* further check; an unsuccessful check is followed by a sleep of at least
\* poll_interval; once the deadline has passed without a code the loop
\* returns None without raising; and the loop always returns.
PollPositions == {"poll_head", "checking", "sleeping"}

C14_PollState ==
    \A w \in Workers :
        /\ pc[w] \in PollPositions \cup {"poll_returned"} =>
               /\ deadline[w] = email_wait_timeout_s
               /\ exc[w] = "none"
        /\ pc[w] \in PollPositions =>
               /\ last_verification_code[w] = NoCode
               /\ sleeps[w] = IF pc[w] = "poll_head" THEN attempt[w]
                               ELSE attempt[w] - 1
        /\ pc[w] = "poll_returned" =>
               IF verification_code[w] = NoCode
                 THEN /\ now >= deadline[w]
                      /\ last_verification_code[w] = NoCode
                      /\ sleeps[w] = attempt[w]
                 ELSE /\ verification_code[w] = last_verification_code[w]
                      /\ attempt[w] >= 1
                      /\ sleeps[w] = attempt[w] - 1

C14_PollStep ==
    \A w \in Workers :
        /\ deadline'[w] # deadline[w] => pc[w] = "poll_enter"
        /\ (pc[w] = "poll_enter" /\ pc'[w] # "poll_enter") =>
               deadline'[w] = now + email_wait_timeout_s
        /\ attempt'[w] > attempt[w] =>
               /\ now < deadline[w]
               /\ pc'[w] = "checking"
               /\ attempt'[w] = attempt[w] + 1
        /\ (pc[w] = "checking" /\ pc'[w] # "checking") =>
               IF last_verification_code'[w] # NoCode
                 THEN /\ pc'[w] = "poll_returned"
                      /\ verification_code'[w] = last_verification_code'[w]
                 ELSE pc'[w] = "sleeping"
        /\ (pc[w] = "sleeping" /\ pc'[w] # "sleeping") =>
               /\ now' >= now + email_poll_interval_s
               /\ pc'[w] = "poll_head"
        /\ (pc[w] = "poll_head" /\ pc'[w] = "poll_returned") =>
               /\ now >= deadline[w]
               /\ verification_code'[w] = NoCode
               /\ exc'[w] = "none"

C14_PollLoopBoundedByDeadline ==
    /\ []C14_PollState
    /\ [][C14_PollStep]_vars
    /\ \A w \in Workers :
          (pc[w] \in PollPositions \cup {"poll_enter"}) ~>
              (pc[w] = "poll_returned")

\* with the longest timeout and poll interval 1, the code is returned by
\* the third check, after two sleeps
C14_Witness ==
    /\ pc[1] = "poll_returned"
    /\ email_wait_timeout_s = MaxTimeout
    /\ email_poll_interval_s = 1
    /\ attempt[1] = 3
    /\ sleeps[1] = 2
    /\ verification_code[1] \in Codes

\* C15 (as claimed): a message in which the client's address occurs in the
\* body only, in none of the headers To, X-Forwarded-To, Delivered-To, Cc
\* and nowhere in the header block, is rejected: processing it leaves
\* last_verification_code as it was, even when its body holds a code.
InHeaderBlock(msg, address) ==
    Contains(Lower(HeaderLines(msg.headers, 1)), Lower(address))

AddressOnlyInBody(msg, address) ==
    /\ ~InHeaderBlock(msg, address)
    /\ Contains(Lower(msg.body), Lower(address))

C15_BodyMentionRejected ==
    [][(mail_pc = "fetched" /\ AddressOnlyInBody(message, email_address))
           => last_verification_code' = last_verification_code]_vars

\* C16: parse returns the code of the candidate of highest confidence
\* among the candidates found in the text without its tags; among several
\* of that confidence, the one found first, continuous matches coming
\* before spaced before dashed and, within a kind, left before right;
\* without any candidate parse returns none.
Discovered(text, length) ==
    CandidatesOf(text, length, "continuous") \o
    CandidatesOf(text, length, "spaced") \o
    CandidatesOf(text, length, "dashed")

C16_BestCandidateFirstFoundWins ==
    "parse" \in parser_calls =>
        LET found == Discovered(clean_html(content), code_length)
        IN  IF found = <<>> THEN parsed = NoCode
            ELSE \E i \in DOMAIN found :
                    /\ parsed = found[i].code
                    /\ \A j \in DOMAIN found :
                          /\ found[j].confidence <= found[i].confidence
                          /\ j < i =>
                                found[j].confidence < found[i].confidence

\* a spaced code comes first in the text and a continuous code second,
\* both score the same, and parse returned the continuous one
C16_Witness ==
    /\ "parse" \in parser_calls
    /\ layout.first.kind = "spaced"
    /\ layout.second.kind = "continuous"
    /\ LET found == Discovered(clean_html(content), code_length)
       IN  /\ Len(found) = 2
           /\ found[1].confidence = found[2].confidence
           /\ found[1].pattern_type = "continuous"
    /\ parsed = SubSeq(OtherDigits, 1, code_length)

\* C17: for every supported code length and every pattern kind,
\* find_candidates on a text holding one well-formed code of that kind
\* (not wrapped, no letter or digit right before or after it) returns
\* exactly one candidate: the digits of the code without separators, of
\* that kind.
Delimited(b) ==
    /\ b.lead # <<>> => ~IsWord(b.lead[Len(b.lead)])
    /\ b.trail # <<>> => ~IsWord(b.trail[1])

OneWellFormedCode ==
    /\ layout.first.kind \in PatternKinds
    /\ layout.second.kind = "none"
    /\ layout.first.wrap = "plain"
    /\ Delimited(layout.first)

C17_OneCodeOneCandidate ==
    ("find_candidates" \in parser_calls /\ OneWellFormedCode) =>
        /\ Len(candidates) = 1
        /\ candidates[1].code = SubSeq(CodeDigits, 1, code_length)
        /\ candidates[1].pattern_type = layout.first.kind

\* the text "Your code is 1 2 3 4 5 6. Thanks" with length 6 gave the single
\* candidate 123456 of kind spaced
C17_Witness ==
    /\ "find_candidates" \in parser_calls
    /\ code_length = 6
    /\ content = YourCodeIs \o
           <<"1", " ", "2", " ", "3", " ", "4", " ", "5", " ", "6">> \o Thanks
    /\ Len(candidates) = 1
    /\ candidates[1].code = <<"1", "2", "3", "4", "5", "6">>
    /\ candidates[1].pattern_type = "spaced"

\* C18: when a text holds two candidates of one kind, one with a keyword
\* inside the context window (the 50 characters before its start, or after
\* its end and within 50 characters of its start) and one with no keyword
\* within 50 characters of either of its ends, find_candidates ranks the
\* first before the second, whatever the kind, their order in the text and
\* the whitespace around them.
KeywordIn(text) ==
    \E i \in DOMAIN keywords : Contains(Lower(text), keywords[i])

NearKeyword(text, m) ==
    \/ KeywordIn(Slice(text,
                       IF m.start - 1 - ContextRadius > 0
                         THEN m.start - 1 - ContextRadius ELSE 0,
                       m.start - 1))
    \/ KeywordIn(Slice(text, m.end, m.start - 1 + ContextRadius))

FarFromKeywords(text, m) ==
    ~KeywordIn(Slice(text,
                     IF m.start - 1 - ContextRadius > 0
                       THEN m.start - 1 - ContextRadius ELSE 0,
                     m.end + ContextRadius))

\* the two blocks of the text are the only matches of their kind, the
\* first one near a keyword and the second far from all, or the reverse
NearAndFar(near, far) ==
    /\ layout.second.kind = layout.first.kind
    /\ LET ms == FindIter(content, 1, code_length, layout.first.kind)
       IN  /\ Len(ms) = 2
           /\ NearKeyword(content, ms[near])
           /\ FarFromKeywords(content, ms[far])

C19_TagsStripped ==
    ("parse" \in parser_calls /\ layout.second.kind = "none") =>
        LET b == layout.first
            group == DigitGroup(CodeDigits, code_length, b.kind, b.sep)
        IN  /\ b.wrap = "bold" =>
                   /\ clean_html(content) =
                          b.lead \o <<" ">> \o group \o <<" ">> \o b.trail
                   /\ parsed = SubSeq(CodeDigits, 1, code_length)
            /\ b.wrap = "attribute" =>
                   /\ clean_html(content) = b.lead \o <<" ">> \o b.trail
                   /\ parsed = NoCode

\* <b>123456</b> was parsed to 123456
C19_Witness ==
    /\ "parse" \in parser_calls
    /\ content = <<"<", "b", ">", "1", "2", "3", "4", "5", "6",
                   "<", "/", "b", ">">>
    /\ parsed = <<"1", "2", "3", "4", "5", "6">>

\* C20: for every requested length, the password generate_password returns
\* holds at least one letter, at least one digit and at least one of the
\* symbols !@#$%^&*, and is exactly as long as requested when the requested
\* length is 8 or more and exactly 8 characters long when it is below 8.
C20_PasswordClassesAndLength ==
    password_pc = "returned" =>
        /\ \E k \in DOMAIN password : password[k] \in Range(letters)
        /\ \E k \in DOMAIN password : password[k] \in Range(digits)
        /\ \E k \in DOMAIN password :
              password[k] \in {"!", "@", "#", "$", "%", "^", "&", "*"}
        /\ password_length >= 8 => Len(password) = password_length
        /\ password_length < 8 => Len(password) = 8

\* a password asked for with length 5 was returned with 8 characters, the
\* shuffle having moved the symbol to the front and the letter to the end
C20_Witness ==
    /\ password_pc = "returned"
    /\ password_length = 5
    /\ Len(password) = 8
    /\ password[1] \in Range(symbols)
    /\ password[8] \in Range(letters)

\* C21: run_batch issues its final progress callback (total, total) only
\* once the queue is drained and every worker has ended; at that moment
\* completed equals total and no workflow is in progress.
C21_FinalCallbackAfterAllWorkers ==
    main_pc \in {"final_cb", "returned"} =>
        /\ queue = <<>>
        /\ unfinished_tasks = 0
        /\ \A w \in tasks : pc[w] = "exited"
        /\ completed = total
        /\ InProgress = 0
        /\ progress_lock = 0

\* a full batch on a full pool has issued its final callback after one
\* callback per index
C21_Witness ==
    /\ main_pc = "returned"
    /\ progress_cb
    /\ total = MaxTotal
    /\ Cardinality(tasks) = MaxConc
    /\ cb_log = [i \in 1..(total + 1) |-> Min(i, total)]
    /\ completed = total

\* C22: no failure inside the gift step fails the workflow: the step is
\* left only towards cookie extraction, with no exception in flight,
\* whatever happened in it (navigation error, no claim control, click
\* failure, status not updated in time); and the claim control is not
\* clicked when its text already says claimed, in whatever case.
GiftPositions ==
    {"gift", "gift_control", "gift_text", "gift_click", "gift_status"}

SaysClaimed(text) ==
    \E k \in 0..(Len(text) - 7) :
        /\ text[k + 1] \in {"c", "C"}
        /\ text[k + 2] \in {"l", "L"}
        /\ text[k + 3] \in {"a", "A"}
        /\ text[k + 4] \in {"i", "I"}
        /\ text[k + 5] \in {"m", "M"}
        /\ text[k + 6] \in {"e", "E"}
        /\ text[k + 7] \in {"d", "D"}

C22_GiftState ==
    \A w \in Workers :
        /\ pc[w] \in GiftPositions => exc[w] = "none"
        /\ "claim" \in page_actions[w] => ~SaysClaimed(btn_text[w])
        /\ gift_outcome[w] # "none" => pc[w] \notin GiftPositions

C22_GiftStep ==
    \A w \in Workers :
        (pc[w] \in GiftPositions /\ pc'[w] \notin GiftPositions) =>
            /\ pc'[w] = "cookies"
            /\ exc'[w] = "none"
            /\ gift_outcome'[w] # "none"

C22_GiftStepNeverFails ==
    /\ []C22_GiftState
    /\ [][C22_GiftStep]_vars

\* the control was clicked, its status did not update in time, and the
\* workflow went on to write its structured account record
C22_Witness ==
    /\ gift_outcome[1] = "not_updated"
    /\ "claim" \in page_actions[1]
    /\ accounts_dir # {}

\* C23 (as claimed): every legacy session record and every structured
\* account record a workflow has written carries a non-empty token; a
\* workflow whose captured GetUserToken body yields no token writes neither.
C23_NoTokenlessRecords ==
    /\ \A r \in cookies_dir : r.token # NoToken
    /\ \A r \in accounts_dir : r.jwt_token # <<>>

\* The steps of one workflow in the order run_one and _sign_up await them;
\* the positions of a loop share the rank of the loop
PathOrder ==
    <<{"mail"}, {"launch"}, {"signup"}, {"poll_enter"},
      {"poll_head", "checking", "sleeping"}, {"poll_returned"},
      {"enter_code"}, {"submit"}, {"await_redirect"}, {"save_account"},
      {"appending"}, {"settle"}, {"token_loop", "reloading"}, {"gift"},
      {"gift_control"}, {"gift_text"}, {"gift_click"}, {"gift_status"},
      {"cookies"}, {"save_session"}, {"save_account_data"}, {"teardown"}>>

PathPositions == UNION {PathOrder[i] : i \in DOMAIN PathOrder}

PathRank(label) ==
    IF label \in PathPositions
      THEN CHOOSE i \in DOMAIN PathOrder : label \in PathOrder[i]
      ELSE Len(PathOrder) + 1

PathLoops ==
    {"poll_head", "checking", "sleeping", "token_loop", "reloading"}

\* the workflow of worker w has returned from run_one without an exception
Succeeded(w) ==
    pc[w] = "finally" /\ index[w] # None /\ exc[w] = "none"

C24_PathState ==
    \A w \in Workers :
        /\ exc[w] # "none" => pc[w] = "finally"
        /\ poll_entries[w] <= 1
        /\ Len(attempts[w]) <= max_retries
        /\ pc[w] \in PathPositions /\ PathRank(pc[w]) <= PathRank("save_session")
               => cookies_dir = {} /\ accounts_dir = {}
        /\ pc[w] = "save_account_data"
               => Cardinality(cookies_dir) = 1 /\ accounts_dir = {}
        /\ Succeeded(w)
               => /\ Cardinality(cookies_dir) = 1
                  /\ Cardinality(accounts_dir) = 1
                  /\ \A r \in cookies_dir \cup accounts_dir :
                         r.email = index[w]

C24_PathStep ==
    \A w \in Workers :
        /\ (pc[w] \in PathPositions /\ pc'[w] # pc[w]) =>
              \/ pc'[w] = "finally"
              \/ PathRank(pc'[w]) > PathRank(pc[w])
              \/ /\ PathRank(pc'[w]) = PathRank(pc[w])
                 /\ pc[w] \in PathLoops
        /\ (pc'[w] \in PathPositions /\ pc[w] \notin PathPositions) =>
              pc'[w] = "mail"
        /\ pc[w] = "finally" => pc'[w] \notin PathPositions
        /\ cookies_dir' # cookies_dir =>
              \E v \in Workers : /\ pc[v] = "save_session"
                                 /\ pc'[v] = "save_account_data"
        /\ accounts_dir' # accounts_dir =>
              \E v \in Workers : /\ pc[v] = "save_account_data"
                                 /\ pc'[v] = "teardown"
        /\ (pc'[w] = "finally" /\ exc'[w] # "none") =>
              /\ cookies_dir' = cookies_dir
              /\ accounts_dir' = accounts_dir
              /\ accounts_file' = accounts_file

HighestId(ids) ==
    CHOOSE i \in Range(ids) : \A j \in Range(ids) : j <= i

\* message id i of the mailbox is addressed to the client and has a code
YieldsCode(i) ==
    /\ verify_recipient(mailbox[i], email_address)
    /\ parse(mailbox[i].body, code_length) # NoCode

C25_CycleState ==
    /\ fetched_ids \subseteq Range(email_ids)
    /\ \A i \in fetched_ids : i = HighestId(email_ids)
    /\ mail_pc = "fetched" =>
          /\ fetched_ids = {HighestId(email_ids)}
          /\ message = mailbox[HighestId(email_ids)]
    /\ mail_pc = "found" => fetched_ids = {}

C25_CycleStep ==
    /\ (mail_pc = "fetched" /\ mail_pc' = "idle") =>
          /\ email_ids' = email_ids
          /\ fetched_ids' = fetched_ids
          /\ last_verification_code'[1] =
                IF YieldsCode(HighestId(email_ids))
                  THEN parse(mailbox[HighestId(email_ids)].body,
                             code_length)
                  ELSE last_verification_code[1]
    /\ mail_pc # "fetched" =>
          last_verification_code' = last_verification_code

\* C25: in a check cycle the one message fetched and inspected is the one
\* with the highest id of the search result; no other id of the result is
\* fetched during the cycle or kept for a later one; when that message is
\* rejected or has no code the cycle leaves last_verification_code as it
\* was, whatever the older messages of the result hold.
C25_OnlyLatestInspected ==
    /\ []C25_CycleState
    /\ [][C25_CycleStep]_vars

\* a cycle over two matching messages is over: the older one is addressed
\* to the client and has a code, the latest one has none, no code was
\* extracted
C25_Witness ==
    /\ mail_pc = "idle"
    /\ Len(email_ids) = 2
    /\ fetched_ids = {2}
    /\ YieldsCode(1)
    /\ ~YieldsCode(2)
    /\ last_verification_code[1] = NoCode

\* the matches of every kind in a text
MatchesOf(text, length) ==
    UNION {{[kind |-> k, start |-> m.start, end |-> m.end] :
               m \in Range(FindIter(text, 1, length, k))} :
           k \in PatternKinds}

\* the candidates find_candidates returned for match m
CandidatesFor(m) ==
    {c \in Range(candidates) :
        /\ c.pattern_type = m.kind
        /\ c.code = SelectSeq(SubSeq(content, m.start, m.end), IsDigit)}

\* the confidence holds the 0.1 of the keyword bonus
HasKeywordBonus(c) ==
    c.confidence >= (IF c.pattern_type = "continuous" THEN 80 ELSE 90) + 10

\* a keyword lies in the 50 characters before the first character of the
\* match, or in the 50 characters after its last character
KeywordWithinRadius(text, m) ==
    \/ KeywordIn(SubSeq(text,
                        IF m.start - ContextRadius > 1
                          THEN m.start - ContextRadius ELSE 1,
                        m.start - 1))
    \/ KeywordIn(SubSeq(text, m.end + 1,
                        Min(Len(text), m.end + ContextRadius)))

\* C26 (as claimed): a candidate has the keyword bonus exactly when a
\* keyword occurs, in any letter case, within 50 characters before the
\* start of its match or within 50 characters after the end of its match,
\* for every pattern kind and every code length.
C26_KeywordBonusWindow ==
    "find_candidates" \in parser_calls =>
        \A m \in MatchesOf(content, code_length) :
            \A c \in CandidatesFor(m) :
                HasKeywordBonus(c) <=> KeywordWithinRadius(content, m)

\* the matched text has a whitespace character right before its first and
\* right after its last character
Surrounded(text, m) ==
    /\ m.start > 1
    /\ IsSpace(text[m.start - 1])
    /\ m.end < Len(text)
    /\ IsSpace(text[m.end + 1])

\* the confidence holds the 0.05 of the standalone bonus (a sum above 1.0
\* is cut to 1.0 and shows nothing)
HasStandaloneBonus(c) == c.confidence \in {85, 95}

\* C27 (as claimed): a candidate of any of the three kinds has the
\* standalone bonus exactly when the character right before the matched
\* text and the character right after the whole matched text, separators
\* included, are both whitespace or newline.
C27_StandaloneBonus ==
    "find_candidates" \in parser_calls =>
        \A m \in MatchesOf(content, code_length) :
            \A c \in CandidatesFor(m) :
                c.confidence < 100 =>
                    (HasStandaloneBonus(c) <=> Surrounded(content, m))

\* C28 (as claimed): with code length 6, a text whose only digits are
\* written 123-456 gives the candidate 123456 of kind dashed, and parse
\* returns 123456.
C28_GroupedDashSupported ==
    (code_length = 6 /\ layout.first.kind = "grouped") =>
        /\ "find_candidates" \in parser_calls =>
              /\ candidates # <<>>
              /\ candidates[1].code = SubSeq(CodeDigits, 1, 6)
              /\ candidates[1].pattern_type = "dashed"
        /\ "parse" \in parser_calls => parsed = SubSeq(CodeDigits, 1, 6)

\* the value of a text can be read as a JWT
HoldsJwtA(l) ==
    /\ l.shape \notin Valueless
    /\ l.value \in {JwtA, <<" ">> \o JwtA \o <<" ">>, <<"x", " ">> \o JwtA}

\* the text is JSON with a non-blank string at Result.Token
HasTokenField(l) ==
    l.shape \in TokenShapes /\ Strip(l.value) # <<>>

\* the first JWT-shaped part of the raw text: the older JWT stands ahead of
\* the value
FirstJwt(l) ==
    IF l.old THEN JwtB ELSE IF HoldsJwtA(l) THEN JwtA ELSE NoToken

\* C29: extract_token never raises.  It returns the stripped string found
\* at Result.Token when the text is JSON and holds a non-blank string there;
\* for every other text (not JSON, no such field, the field not a string or
\* blank, Result not an object, the top level not an object) it returns the
\* first JWT-shaped part of the raw text, and none when there is no such
\* part or the text is empty.
C29_ExtractToken ==
    /\ token_pc # "raised"
    /\ token_pc = "returned" =>
          /\ HasTokenField(token_layout) =>
                token_value = Strip(token_layout.value)
          /\ ~HasTokenField(token_layout) =>
                token_value = FirstJwt(token_layout)
          /\ token_text = <<>> => token_value = NoToken

\* an older JWT comes first in the text and Result.Token holds a JWT between
\* two spaces: the JWT of Result.Token was returned without the spaces
C29_Witness ==
    /\ token_pc = "returned"
    /\ token_layout.shape = "token_spaced"
    /\ token_layout.old
    /\ token_layout.value = <<" ">> \o JwtA \o <<" ">>
    /\ token_value = JwtA

\* the account lines of the credential log, in file order
AccountLines(file) == SelectSeq(file, LAMBDA line : line # Header)

C30_LogState ==
    accounts_file # <<>> =>
        /\ accounts_file[1] = Header
        /\ \A i \in 2..Len(accounts_file) : accounts_file[i] # Header

C30_LogStep ==
    accounts_file' # accounts_file =>
        \E w \in Workers :
            /\ pc[w] = "appending"
            /\ pc'[w] = "settle"
            /\ SubSeq(accounts_file', 1, Len(accounts_file)) = accounts_file
            /\ AccountLines(accounts_file') =
                   Append(AccountLines(accounts_file), index[w])

\* C30: however the workers of a batch interleave, the credential log that
\* had no line when the batch began has the header as its first line and
\* nowhere else, and every append leaves what was there in place and adds
\* exactly one account line, that of the appending workflow, at the end.
C30_HeaderOnceAppendsOneLine ==
    /\ []C30_LogState
    /\ [][C30_LogStep]_vars

\* the workflow of index 2 appended first and wrote the header, the one of
\* index 1 waited for the lock and appended after it
C30_Witness ==
    /\ accounts_file = <<Header, 2, 1>>
    /\ \A w \in Workers : write_header[w] = "none"

\* the workers whose real index is dequeued and not yet counted
Uncounted ==
    {w \in Workers : /\ index[w] # None
                     /\ pc[w] \in InWorkflow \cup {"finally", "progress"}}

C31_CounterState ==
    /\ Cardinality({i \in Indices : dequeued[i] >= 1}) =
           completed + Cardinality(Uncounted)
    /\ \A w \in Workers :
          pc[w] = "callback" =>
              /\ progress_lock = w
              /\ accounts_lock # w
              /\ index[w] # None
              /\ completed >= 1

C31_CounterStep ==
    /\ completed' # completed =>
          /\ completed' = completed + 1
          /\ \E w \in Workers :
                /\ pc[w] = "progress" /\ pc'[w] = "callback"
                /\ index[w] # None
                /\ progress_lock = 0 /\ progress_lock' = w
                /\ accounts_lock # w /\ accounts_lock' # w
    /\ (\E w \in Workers : pc[w] = "callback") => completed' = completed
    /\ (cb_log' # cb_log /\ main_pc # "final_cb") =>
          \E w \in Workers :
             /\ pc[w] = "callback"
             /\ progress_lock = w /\ progress_lock' = 0
             /\ accounts_lock # w
             /\ cb_log' = Append(cb_log, completed)
    /\ \A w \in Workers :
          (pc[w] = "finally" /\ pc'[w] # "finally") =>
              pc'[w] = (IF index[w] = None THEN "exited" ELSE "progress")
    /\ \A w \in Workers :
          (pc[w] = "callback" /\ pc'[w] # "callback" /\ progress_cb) =>
              cb_log' = Append(cb_log, completed)

\* C31: every real index a worker is done with, whether its workflow
\* returned or raised, is counted once: the counter goes up by exactly 1,
\* under the progress lock and outside the credential-write lock, and the
\* callback is given the value that worker wrote, under the same hold of
\* the lock; a sentinel is never counted and the counter never goes down.
C31_CountedOncePerIndex ==
    /\ []C31_CounterState
    /\ [][C31_CounterStep]_vars

\* a worker has counted a workflow that failed before it wrote anything
\* and is about to report it, while the other worker is inside the
\* credential-log append
C31_Witness ==
    \E w, v \in Workers :
        /\ pc[w] = "callback"
        /\ progress_lock = w
        /\ progress_cb
        /\ completed = 1
        /\ cb_log = <<>>
        /\ index[w] \notin Range(accounts_file)
        /\ pc[v] = "appending"
        /\ accounts_lock = v

\* what a file is to contribute: the elements of an array, the object of
\* a single object, nothing otherwise
Part(n) ==
    LET shape == merge_dir[n]
        data == IF shape \in {"absent", "unreadable"} THEN Malformed
                ELSE json_loads(FileText(n, shape))
    IN  IF ~data.ok THEN <<>>
        ELSE IF data.value.type = "array"
          THEN [i \in 1..Len(data.value.members) |->
                    data.value.members[i].value]
        ELSE IF data.value.type = "object" THEN <<data.value>>
        ELSE <<>>

\* the parts of the files of a set, in the order of the file names
RECURSIVE PartsFrom(_, _)
PartsFrom(n, files) ==
    IF n > MaxFiles THEN <<>>
    ELSE (IF n \in files THEN Part(n) ELSE <<>>) \o PartsFrom(n + 1, files)

\* the output file holds this list as one JSON array
Holds(text, all) ==
    /\ json_loads(text).ok
    /\ json_loads(text).value = AsArray(all)

\* C32 (as claimed): a merge that found files *.json and returned 0 has
\* written the output file as the one array of the parts of the files in
\* the order of their names.
C32_OutputIsTheMergedArray ==
    (merge_pc = "return_0" /\ merge_dir # NoDirectory
     /\ Glob(merge_dir) # {}) =>
        Holds(output_file, PartsFrom(1, FileNames))

C32_MergeState ==
    /\ merge_pc = "loop" =>
          /\ \A i, j \in DOMAIN json_files :
                i < j => json_files[i] < json_files[j]
          /\ all_accounts =
                 PartsFrom(1, Glob(merge_dir) \ Range(json_files))
    /\ (merge_pc = "return_0" /\ merge_dir # NoDirectory
        /\ PartsFrom(1, FileNames) # <<>>) =>
          Holds(output_file, PartsFrom(1, FileNames))

C32_MergeStep ==
    output_file' # output_file =>
        /\ merge_pc = "loop"
        /\ merge_pc' = "return_0"
        /\ PartsFrom(1, FileNames) # <<>>

\* C32 (amended): the files are read in the order of their names; a file
\* holding an array contributes its elements, one holding an object that
\* object, any other file (invalid JSON, another value, unreadable)
\* nothing, and the merge goes on.  When the parts are not empty and the
\* command returns 0, the output file holds them as one array; the output
\* file is written in no other case: with nothing to merge it is left as
\* it was, absent or stale.
C32_MergeAmended ==
    /\ []C32_MergeState
    /\ [][C32_MergeStep]_vars

\* two files were merged over a stale output: the elements of the array
\* of the first, then the object of the second
C32_Witness ==
    /\ merge_pc = "return_0"
    /\ merge_dir[1] = "array_mixed"
    /\ merge_dir[2] = "object"
    /\ Len(all_accounts) = 3
    /\ output_file # StaleOutput
    /\ Holds(output_file, all_accounts)

C33_QueueState ==
    /\ \A j, k \in DOMAIN queue :
          (j < k /\ queue[j] = None) => queue[k] = None
    /\ \A w \in Workers :
          (pc[w] = "exited" \/ (pc[w] = "finally" /\ index[w] = None)) =>
              \A i \in 1..total : dequeued[i] = 1 /\ i \notin Range(queue)

C33_SentinelStep ==
    \A w \in Workers :
        (pc[w] = "get" /\ pc'[w] # "get" /\ index'[w] = None) =>
            /\ \A k \in DOMAIN queue : queue[k] = None
            /\ \A i \in 1..total : dequeued[i] = 1

\* C33: the queue always holds its indices ahead of its sentinels, so a
\* worker that takes a sentinel finds no index left on the queue, and a
\* worker has ended only when every index of the batch was taken by some
\* worker.
C33_NoSentinelBeforeLastIndex ==
    /\ []C33_QueueState
    /\ [][C33_SentinelStep]_vars

\* a worker has taken its sentinel and ended while the other worker is
\* still inside the workflow of the last index
C33_Witness ==
    \E w, v \in Workers :
        /\ pc[w] = "exited"
        /\ pc[v] \in InWorkflow
        /\ index[v] = MaxTotal
        /\ total = MaxTotal
        /\ Range(queue) = {None}

\* the done values 1, 2, ..., n
UpTo(n) == [i \in 1..n |-> i]

\* C34: with a callback that never raises, the workers report the done
\* values 1, 2, ..., total in this order, none twice and none skipped,
\* whichever way they interleave, and run_batch then reports total once
\* more: total + 1 invocations when it has returned.
C34_DoneValuesInOrder ==
    /\ ~progress_cb => cb_log = <<>>
    /\ (progress_cb /\ ~cb_raised /\ ValidArguments) =>
          IF main_pc = "returned"
            THEN cb_log = Append(UpTo(total), total)
            ELSE /\ cb_log = UpTo(Len(cb_log))
                 /\ Len(cb_log) <= total
                 /\ Len(cb_log) \in {completed, completed - 1}
                 /\ Len(cb_log) = completed - 1 =>
                        \E w \in Workers : pc[w] = "callback"

\* the two workers of a full pool have reported the two workflows of a
\* full batch, no call has raised, and the batch has returned after its
\* final call
C34_Witness ==
    /\ main_pc = "returned"
    /\ progress_cb
    /\ ~cb_raised
    /\ total = MaxTotal
    /\ concurrency = MaxConc
    /\ Len(cb_log) = total + 1
    /\ cb_log[total] = total

\* the worker waits for the lock
WaitsForAccountsLock(w) == pc[w] = "save_account" /\ accounts_lock # 0

WaitsForProgressLock(w) == pc[w] = "progress" /\ progress_lock # 0

\* C35: no worker holds the credential-write lock and the progress lock
\* together; the holder of either lock is inside that lock's section and
\* not waiting for the other lock; and whoever holds a lock can take its
\* next step, so a worker waiting for a lock is never waited for in turn.
C35_LocksNeverNested ==
    \A w \in Workers :
        /\ ~(accounts_lock = w /\ progress_lock = w)
        /\ accounts_lock = w =>
              /\ pc[w] = "appending"
              /\ ~WaitsForProgressLock(w)
              /\ ENABLED (AppendCheck(w) \/ AppendAccount(w))
        /\ progress_lock = w =>
              /\ pc[w] = "callback"
              /\ ~WaitsForAccountsLock(w)
              /\ ENABLED ProgressCallback(w)
        /\ WaitsForAccountsLock(w) => accounts_lock # w
        /\ WaitsForProgressLock(w) => progress_lock # w

\* both locks are held, by different workers, and nobody waits
C35_Witness ==
    \E w, v \in Workers :
        /\ w # v
        /\ accounts_lock = w
        /\ progress_lock = v
        /\ pc[w] = "appending"
        /\ pc[v] = "callback"

\* the positions of run_one inside the signup phase
SignUpPositions ==
    {"signup", "poll_enter", "poll_head", "checking", "sleeping",
     "poll_returned", "enter_code", "submit", "await_redirect"}

\* how a signup phase that returned ended
SignUpReturned == {"redirected", "timeout_on_signup", "timeout_redirected"}

NothingWritten ==
    /\ accounts_file = <<>>
    /\ cookies_dir = {}
    /\ accounts_dir = {}

C36_WrittenState ==
    \A w \in Workers :
        /\ pc[w] \in SignUpPositions => NothingWritten
        /\ signup_outcome[w] \in {"no_code", "rejected"} => NothingWritten
        /\ (started[1] = 1 /\ signup_outcome[w] \notin SignUpReturned
            /\ index[w] # None) => NothingWritten
        /\ ~NothingWritten =>
              /\ LoggedEmails # {}
              /\ verification_code[1] # NoCode
              /\ {"email", "send_code", "code", "password", "submit"}
                     \subseteq page_actions[1]

C36_WrittenStep ==
    /\ \A w \in Workers :
          (pc[w] \in SignUpPositions /\ pc'[w] = "finally") =>
              /\ exc'[w] # "none"
              /\ NothingWritten'
    /\ accounts_file' # accounts_file =>
          \E w \in Workers :
             /\ pc[w] = "appending"
             /\ signup_outcome[w] \in SignUpReturned
    /\ (cookies_dir' # cookies_dir \/ accounts_dir' # accounts_dir) =>
          \E w \in Workers :
             /\ signup_outcome[w] \in SignUpReturned
             /\ index[w] \in LoggedEmails

\* C36: a workflow whose signup phase raises (an element that does not
\* show, no verification code before the deadline, no Sign Up button, an
\* inline error after the submit) has written nothing; the credential-log
\* line is appended only after the signup phase has returned, and the
\* session and account records only after that line.
C36_SignUpFailureWritesNothing ==
    /\ []C36_WrittenState
    /\ [][C36_WrittenStep]_vars

\* the registration was rejected with an inline error after the code and
\* the password were submitted; the workflow has ended and the worker has
\* gone on, with nothing written
C36_Witness ==
    /\ signup_outcome[1] = "rejected"
    /\ "submit" \in page_actions[1]
    /\ verification_code[1] # NoCode
    /\ pc[1] = "exited"
    /\ completed = 1
    /\ NothingWritten

\* ------------------------------------------------------------------ C37
\* The positions of a worker outside the async with block of run_one (line
\* 423): before the block is entered and after control has left it
OutsideBlock ==
    {"unborn", "get", "mail", "finally", "progress", "callback", "exited"}

\* the connection is open exactly while the workflow is inside the block
C37_ConnectionState ==
    \A w \in Workers :
        connection[w] = (IF pc[w] \in OutsideBlock THEN "none"
                                                   ELSE "connected")

\* the field changes only when the block is entered or left
C37_CloseStep ==
    \A w \in Workers :
        connection'[w] # connection[w] =>
               \/ pc[w] = "mail" /\ pc'[w] \notin OutsideBlock
               \/ pc[w] \notin OutsideBlock /\ pc'[w] = "finally"

\* C37: a workflow that opened its mailbox connection has closed it when
\* run_one is left, whether run_one returned or a later step raised: the
\* connection field is set exactly while the worker is between the entry
\* of the async with block and the worker boundary, and outside that
\* stretch, after the workflow ended, it is none.
C37_ConnectionClosedOnEveryExit ==
    []C37_ConnectionState /\ [][C37_CloseStep]_vars

\* a workflow that opened the connection, signed up, appended its line and
\* then failed to capture the token is at the worker boundary with the
\* connection closed
C37_Witness ==
    \E w \in Workers :
        /\ pc[w] = "finally"
        /\ exc[w] = "TokenCaptureError"
        /\ index[w] \in Range(accounts_file)
        /\ connection[w] = "none"

\* ------------------------------------------------------------------ C38
\* check_emails has not raised
C38_Returned == check_outcome # "raised"

\* a check changes last_verification_code only by processing a fetched
\* message that passes the recipient check and holds a code, and then to
\* that code; a check that ends in any other way leaves it as it was; a
\* stored code is not reset
C38_CodeStep ==
    \A w \in Workers :
        /\ last_verification_code'[w] # last_verification_code[w] =>
               /\ mail_pc = "fetched"
               /\ verify_recipient(message, email_address)
               /\ parse(message.body, code_length) # NoCode
               /\ last_verification_code'[w] =
                      parse(message.body, code_length)
               /\ check_outcome' = "code"
        /\ (mail_pc' = "idle" /\ check_outcome' # "code") =>
               last_verification_code'[w] = last_verification_code[w]
        /\ last_verification_code[w] # NoCode =>
               last_verification_code'[w] # NoCode

\* a check that ends in another way than the one before ends in the way
\* its circumstances tell
C38_OutcomeStep ==
    check_outcome' # check_outcome =>
        /\ check_outcome' = "no_address" => email_address = <<>>
        /\ (mail_pc = "idle" /\ email_address # <<>>
               /\ connection[1] = "none") =>
              check_outcome' = "error"
        /\ check_outcome' = "no_emails" =>
              mail_pc = "idle" /\ mailbox = <<>>
        /\ check_outcome' = "mismatch" =>
              /\ mail_pc = "fetched"
              /\ ~verify_recipient(message, email_address)
        /\ check_outcome' = "no_code" =>
              /\ mail_pc = "fetched"
              /\ parse(message.body, code_length) = NoCode

\* C38: check_emails never raises. Without a generated address, without a
\* connection, when select, search or fetch fails, when nothing matches,
\* when the recipient check rejects the message or the message holds no
\* code, it returns and last_verification_code is what it was; a code that
\* was stored is never reset to none by a later check.
C38_CheckEmailsReturnsAndKeepsCode ==
    []C38_Returned /\ [][C38_CodeStep /\ C38_OutcomeStep]_vars

\* a code was stored, the connection was closed, and the next check ended
\* in the caught error with the code still there
C38_Witness ==
    /\ last_verification_code[1] # NoCode
    /\ connection[1] = "none"
    /\ mail_pc = "idle"
    /\ check_outcome = "error"

\* ------------------------------------------------------------------ C39
\* at most one task thread is alive, and only with the flag set; the flag
\* is set only with a task alive or with the reset of a task that ended
\* (by returning or by raising) scheduled; the dialog is open only with
\* the flag clear
C39_OneTask ==
    /\ Cardinality(Live) <= 1
    /\ Live # {} => running /\ after_queue = 0
    /\ (running /\ Live = {}) => after_queue = 1
    /\ ~running => after_queue = 0
    /\ gui_pc = "dialog" => ~running

\* a task is started only by a handler that found the flag clear, and
\* sets it; with the flag set no handler starts a task or opens the
\* dialog; the flag is cleared only after the task ended
C39_FlagStep ==
    /\ threads' # threads =>
           \/ /\ Len(threads') = Len(threads) + 1
              /\ ~running /\ running'
              /\ last_click' = "started"
           \/ /\ Len(threads') = Len(threads)
              /\ UNCHANGED <<running, last_click>>
    /\ running =>
           /\ Len(threads') = Len(threads)
           /\ gui_pc' = gui_pc
           /\ last_click' \in {last_click, "ignored"}
    /\ (running /\ ~running') =>
           /\ threads # <<>>
           /\ threads[Len(threads)].state = "ended"

\* C39: the window runs at most one background task at a time. While the
\* running flag is set, the four handlers start no task, so no two tasks,
\* and no two batches appending to the credential log, are alive together;
\* the flag is cleared after the task has ended, whether it returned or
\* raised, and not before.
C39_OneBackgroundTask ==
    []C39_OneTask /\ [][C39_FlagStep]_vars

\* the first task raised and its flag was reset; a batch is running, and
\* a click made meanwhile was ignored
C39_Witness ==
    /\ Len(threads) = 2
    /\ threads[1].outcome = "Exception"
    /\ threads[2].target = "run_batch"
    /\ threads[2].state = "target"
    /\ running
    /\ last_click = "ignored"

====
